---- MODULE Spec2Model ----
(***************************************************************************)
(* A model of the dual-write ingestion pipeline (data_processor.py) and of *)
(* the cache-aside read pipeline (api_handler.py).                         *)
(*                                                                         *)
(* The cache is a key-value store with typed values and per-key expiry;    *)
(* the document store is a set of (index, id, source) documents.  Cache    *)
(* keys are sequences of string tokens: f"session:{sid}" is                *)
(* <<"session", ":", sid>>.                                                *)
(***************************************************************************)
EXTENDS Integers, Sequences, FiniteSets, TLC

VARIABLES
    now,        \* wall clock, in seconds
    redis,      \* the cache: key -> [type, val, exp]; only live keys are kept
    docs,       \* the document store: set of [index, id, source]
    indices,    \* names of the indices that exist
    w,          \* the write invocation in progress (data_processor.lambda_handler)
    ninv,       \* number of write invocations started
    trace,      \* per-record outcomes of the current invocation, in program order
    bulkLog,    \* bulk requests issued by the current invocation, in program order
    lastIngested, \* (index, id) -> source last accepted by the document store
    tally,      \* (key, member) -> events that feed the counter or score since the
                \* key was created: [ok: cached without error, part: raised part-way]
    resp,       \* the last response returned by a handler
    lastSearch, \* the last /search request: what was asked and what the handler did
    lastLookup, \* the last /cache, /user, /health or /metrics request, likewise
    racers,     \* write invocations that run side by side, each in a process of its own
    ended,      \* how the write invocations that are over ended, in order: the error
                \* that was raised, "none" for a 200, "stopped" when the runtime ended it
    reader      \* a key lookup of /cache in progress, one cache command per step

vars ==
    <<now, redis, docs, indices, w, ninv, trace, bulkLog, lastIngested, tally, resp,
      lastSearch, lastLookup, racers, ended, reader>>

----------------------------------------------------------------------------
(* Bounds of the model *)

MaxInvocations == 2
MaxBatch == 3
MaxProducts == 1
MaxCounterBatch == 2
MaxDays == 8
MaxSeconds == 301
MaxMessages == 2
MaxRacers == 3

(* Program constants *)

DaySeconds == 86400
SessionTTL == 3600
UserTTL == 86400
CounterTTL == 604800
PopularTTL == 86400
SearchQueriesTTL == 604800
ProductTTL == 3600
CategoryTTL == 86400
ProductSearchTTL == 3600
SearchCacheTTL == 300
MaxSize == 100
PatternCap == 100

NoVal == "-"        \* a field the record does not carry
NoExp == 0 - 1      \* a key without expiry

----------------------------------------------------------------------------
(* Generic helpers *)

Put(f, k, v) == (k :> v) @@ f

\* (mutation of Merge: a field that is set keeps its value)
MergeKeepingOld(old, new) == old @@ new

Merge(old, new) == new @@ old

SeqsUpTo(S, n) == UNION {[1..k -> S] : k \in 0..n}

DateNames ==
    <<"2024-01-01", "2024-01-02", "2024-01-03", "2024-01-04", "2024-01-05",
      "2024-01-06", "2024-01-07", "2024-01-08", "2024-01-09", "2024-01-10",
      "2024-01-11">>

\* datetime.utcnow().strftime('%Y-%m-%d')
Today(t) == DateNames[(t \div DaySeconds) + 1]

\* the decimal representation redis keeps for a counter, as a sequence of digits
DigitChars == <<"0", "1", "2", "3", "4", "5", "6", "7", "8", "9">>

RECURSIVE StrOfInt(_)
StrOfInt(n) ==
    IF n < 10 THEN <<DigitChars[n + 1]>>
    ELSE StrOfInt(n \div 10) \o <<DigitChars[(n % 10) + 1]>>

DigitVal(c) == CHOOSE d \in 0..9 : DigitChars[d + 1] = c

\* int(s)
RECURSIVE IntOfStr(_)
IntOfStr(s) ==
    IF Len(s) = 0 THEN 0
    ELSE 10 * IntOfStr(SubSeq(s, 1, Len(s) - 1)) + DigitVal(s[Len(s)])

----------------------------------------------------------------------------
(* The cache: one command at a time *)

Exists(r, k) == k \in DOMAIN r

\* HSET key mapping: creates the hash without expiry, or merges into it
Hset(r, k, m) ==
    IF Exists(r, k)
    THEN Put(r, k, [r[k] EXCEPT !.val = Merge(r[k].val, m)])
    ELSE Put(r, k, [type |-> "hash", val |-> m, exp |-> NoExp])

\* EXPIRE key seconds: no effect on an absent key
Expire(r, k, ttl, t) ==
    IF Exists(r, k) THEN Put(r, k, [r[k] EXCEPT !.exp = t + ttl]) ELSE r

\* INCR key: an absent key counts from 0 and is created without expiry
Incr(r, k) ==
    IF Exists(r, k)
    THEN Put(r, k, [r[k] EXCEPT !.val = StrOfInt(IntOfStr(r[k].val) + 1)])
    ELSE Put(r, k, [type |-> "string", val |-> StrOfInt(1), exp |-> NoExp])

\* ZINCRBY key increment member
Zincrby(r, k, by, m) ==
    IF Exists(r, k)
    THEN Put(r, k, [r[k] EXCEPT !.val =
            Put(r[k].val, m, (IF m \in DOMAIN r[k].val THEN r[k].val[m] ELSE 0) + by)])
    ELSE Put(r, k, [type |-> "zset", val |-> Put(<<>>, m, by), exp |-> NoExp])

\* SADD key member
Sadd(r, k, m) ==
    IF Exists(r, k)
    THEN Put(r, k, [r[k] EXCEPT !.val = r[k].val \cup {m}])
    ELSE Put(r, k, [type |-> "set", val |-> {m}, exp |-> NoExp])

\* SET key value EX seconds / SETEX key seconds value
SetEx(r, k, ttl, v, t) == Put(r, k, [type |-> "string", val |-> v, exp |-> t + ttl])

ApplyCmd(r, c, t) ==
    CASE c.op = "hset" -> Hset(r, c.key, c.map)
      [] c.op = "expire" -> Expire(r, c.key, c.ttl, t)
      [] c.op = "incr" -> Incr(r, c.key)
      [] c.op = "zincrby" -> Zincrby(r, c.key, c.by, c.member)
      [] c.op = "sadd" -> Sadd(r, c.key, c.member)
      [] c.op = "setex" -> SetEx(r, c.key, c.ttl, c.val, t)

\* the first n commands of cmds, applied in order
RECURSIVE RunCmds(_, _, _, _)
RunCmds(r, cmds, n, t) ==
    IF n = 0 THEN r
    ELSE ApplyCmd(RunCmds(r, cmds, n - 1, t), cmds[n], t)

\* keys whose expiry has passed are gone
Live(r, t) == [k \in {x \in DOMAIN r : r[x].exp = NoExp \/ r[x].exp > t} |-> r[k]]

----------------------------------------------------------------------------
(* CacheWriter: the commands one record issues, in program order *)

\* str.lower() on product names
Lower(s) ==
    CASE s = "Laptop" -> "laptop"
      [] s = "LAPTOP" -> "laptop"
      [] OTHER -> s

SessionKey(event) == <<"session", ":", event.session_id>>
UserKey(event) == <<"user", ":", event.user_id>>
CounterKey(date, event_type) == <<"counters", ":", date, ":", event_type>>
PopularKey == <<"popular_products">>
SearchQueriesKey(date) == <<"search_queries", ":", date>>

\* (mutation of SessionCmds: the session hash is written without EXPIRE)
SessionCmdsWithoutExpire(event) ==
    << [op |-> "hset", key |-> SessionKey(event),
        map |-> [user_id |-> event.user_id,
                 last_activity |-> event.timestamp,
                 last_event |-> event.event_type,
                 device_type |-> "unknown",
                 location |-> "{}"]] >>

\* "Cache user session data"
SessionCmds(event) ==
    << [op |-> "hset", key |-> SessionKey(event),
        map |-> [user_id |-> event.user_id,
                 last_activity |-> event.timestamp,
                 last_event |-> event.event_type,
                 device_type |-> "unknown",
                 location |-> "{}"]],
       [op |-> "expire", key |-> SessionKey(event), ttl |-> SessionTTL] >>

\* "Cache user activity"
UserCmds(event) ==
    << [op |-> "hset", key |-> UserKey(event),
        map |-> [last_activity |-> event.timestamp,
                 last_event |-> event.event_type,
                 current_session |-> event.session_id]],
       [op |-> "expire", key |-> UserKey(event), ttl |-> UserTTL] >>

\* (mutation of CounterCmds: the counter is set, not incremented)
CounterCmdsSet(event, t) ==
    << [op |-> "setex", key |-> CounterKey(Today(t), event.event_type),
        ttl |-> CounterTTL, val |-> StrOfInt(1)] >>

\* "Daily event counters"
CounterCmds(event, t) ==
    << [op |-> "incr", key |-> CounterKey(Today(t), event.event_type)],
       [op |-> "expire", key |-> CounterKey(Today(t), event.event_type),
        ttl |-> CounterTTL] >>

\* (mutation of PopularityCmds: the score grows by the event's quantity)
PopularityCmdsByTwo(event) ==
    IF event.product_id # NoVal
    THEN << [op |-> "zincrby", key |-> PopularKey, by |-> 2, member |-> event.product_id],
            [op |-> "expire", key |-> PopularKey, ttl |-> PopularTTL] >>
    ELSE <<>>

\* "Product popularity counters"
PopularityCmds(event) ==
    IF event.product_id # NoVal
    THEN << [op |-> "zincrby", key |-> PopularKey, by |-> 1, member |-> event.product_id],
            [op |-> "expire", key |-> PopularKey, ttl |-> PopularTTL] >>
    ELSE <<>>

\* (mutation of SearchQueryCmds: the key is built from the event's timestamp)
SearchQueryCmdsByTimestamp(event, t) ==
    IF event.event_type = "search" /\ event.search_query # NoVal
    THEN << [op |-> "zincrby", key |-> SearchQueriesKey(event.timestamp), by |-> 1,
             member |-> event.search_query],
            [op |-> "expire", key |-> SearchQueriesKey(event.timestamp),
             ttl |-> SearchQueriesTTL] >>
    ELSE <<>>

\* "Search query caching"
SearchQueryCmds(event, t) ==
    IF event.event_type = "search" /\ event.search_query # NoVal
    THEN << [op |-> "zincrby", key |-> SearchQueriesKey(Today(t)), by |-> 1,
             member |-> event.search_query],
            [op |-> "expire", key |-> SearchQueriesKey(Today(t)),
             ttl |-> SearchQueriesTTL] >>
    ELSE <<>>

cache_user_data(event, t) ==
    SessionCmds(event) \o UserCmds(event) \o CounterCmds(event, t)
        \o PopularityCmds(event) \o SearchQueryCmds(event, t)

\* (mutation of cache_product_data: the search entry counts the cachings of the name)
cache_product_data_counting(product, t) ==
    LET product_key == <<"product", ":", product.id>>
        category_key == <<"category_products", ":", product.category>>
        search_key == <<"product_search", ":", Lower(product.name)>>
    IN  << [op |-> "hset", key |-> product_key,
            map |-> [name |-> product.name,
                     category |-> product.category,
                     price |-> product.price,
                     brand |-> product.brand,
                     rating |-> "0",
                     stock_quantity |-> "0",
                     is_active |-> "True"]],
           [op |-> "expire", key |-> product_key, ttl |-> ProductTTL],
           [op |-> "sadd", key |-> category_key, member |-> product.id],
           [op |-> "expire", key |-> category_key, ttl |-> CategoryTTL],
           [op |-> "incr", key |-> search_key] >>

cache_product_data(product, t) ==
    LET product_key == <<"product", ":", product.id>>
        category_key == <<"category_products", ":", product.category>>
        search_key == <<"product_search", ":", Lower(product.name)>>
    IN  << [op |-> "hset", key |-> product_key,
            map |-> [name |-> product.name,
                     category |-> product.category,
                     price |-> product.price,
                     brand |-> product.brand,
                     rating |-> "0",
                     stock_quantity |-> "0",
                     is_active |-> "True"]],
           [op |-> "expire", key |-> product_key, ttl |-> ProductTTL],
           [op |-> "sadd", key |-> category_key, member |-> product.id],
           [op |-> "expire", key |-> category_key, ttl |-> CategoryTTL],
           [op |-> "setex", key |-> search_key, ttl |-> ProductSearchTTL,
            val |-> product.id] >>

----------------------------------------------------------------------------
(* IndexWriter: the document store's bulk API *)

AutoNames == <<"auto1", "auto2", "auto3", "auto4", "auto5", "auto6", "auto7", "auto8",
               "auto9", "auto10", "auto11", "auto12", "auto13", "auto14", "auto15", "auto16">>

\* an index action without _id gets an id generated by the store
DocId(d, action) == IF action._id = NoVal THEN AutoNames[Cardinality(d) + 1] ELSE action._id

\* "index" action: insert, or overwrite the document with the same (_index, _id)
IndexDoc(d, action, source) ==
    LET id == DocId(d, action)
    IN  {x \in d : ~(x.index = action._index /\ x.id = id)}
            \cup {[index |-> action._index, id |-> id, source |-> source]}

\* the body of a bulk request is a flat list: action line, source line, ...
\* rejected: the positions of the documents the store reports as errors
RECURSIVE BulkApply(_, _, _, _)
BulkApply(d, actions, n, rejected) ==
    IF n = 0 THEN d
    ELSE LET before == BulkApply(d, actions, n - 1, rejected)
         IN  IF n \in rejected THEN before
             ELSE IndexDoc(before, actions[2 * n - 1], actions[2 * n])

\* (index, id) -> source of the last document of the request the store accepted
RECURSIVE NoteIngested(_, _, _, _)
NoteIngested(li, recs, n, rejected) ==
    IF n = 0 THEN li
    ELSE LET before == NoteIngested(li, recs, n - 1, rejected)
         IN  IF n \in rejected THEN before
             ELSE Put(before, <<recs[n].index, recs[n].rec.id>>, recs[n].rec)

----------------------------------------------------------------------------
(* IngestionCoordinator: process_user_events / process_products, one record  *)
(* per step, then the bulk call                                              *)

Phases == <<"events", "products", "single">>

HasPhase(data, k) ==
    CASE k = 1 -> data.hasEvents
      [] k = 2 -> data.hasProducts
      [] k = 3 -> data.hasSingle

\* the records process_data_batch hands to process_user_events / process_products
PhaseBatch(data, k) ==
    CASE k = 1 -> data.events
      [] k = 2 -> data.products
      [] k = 3 -> <<data.single>>

\* the next "if ... in data" of process_data_batch that is taken, 4 when none is
RECURSIVE PhaseFrom(_, _)
PhaseFrom(data, k) ==
    IF k > 3 THEN 4
    ELSE IF HasPhase(data, k) THEN k ELSE PhaseFrom(data, k + 1)

IndexName(k) == IF k = 2 THEN "product-catalog" ELSE "user-events"

CacheCommands(k, rec, t) ==
    IF k = 2 THEN cache_product_data(rec, t) ELSE cache_user_data(rec, t)

\* where the k-th redis command of the record may raise; 0: none raises.
\* product['id'] is read before the first command: without it nothing is written
FailPoints(k, rec, cmds) ==
    IF k = 2 /\ rec.id = NoVal THEN {1} ELSE 0..Len(cmds)

AllFaults == 0..10

\* the counters and scores one event feeds: (key, member), member NoVal for a counter
Slots(k, rec, t) ==
    IF k = 2 THEN {}
    ELSE {<<CounterKey(Today(t), rec.event_type), NoVal>>}
            \cup (IF rec.product_id # NoVal THEN {<<PopularKey, rec.product_id>>} ELSE {})
            \cup (IF rec.event_type = "search" /\ rec.search_query # NoVal
                  THEN {<<SearchQueriesKey(Today(t)), rec.search_query>>} ELSE {})

NoTally == [ok |-> 0, part |-> 0]

TallyOf(ty, slot) == IF slot \in DOMAIN ty THEN ty[slot] ELSE NoTally

Tallied(ty, slots, failAt) ==
    [s \in slots |->
        IF failAt = 0
        THEN [TallyOf(ty, s) EXCEPT !.ok = @ + 1]
        ELSE [TallyOf(ty, s) EXCEPT !.part = @ + 1]] @@ ty

\* (mutation of BulkAction: the action line without "_id")
BulkActionWithoutId(index, rec) == [_index |-> index, _id |-> NoVal]

\* the action line of one record
BulkAction(index, rec) == [_index |-> index, _id |-> rec.id]

\* bulk_actions.append(action); bulk_actions.append(record)
Enqueue(bulk_actions, index, rec) ==
    Append(Append(bulk_actions, BulkAction(index, rec)), rec)

\* (mutation of Enqueues: the record is enqueued before its cache write is tried)
EnqueuesBeforeCaching(failAt, rec) == rec.id # NoVal

\* whether the record reaches bulk_actions: its cache write raised nothing, and
\* neither did record['id'] in the action line
Enqueues(failAt, rec) == failAt = 0 /\ rec.id # NoVal

\* (mutation of AfterRecord: the except branch leaves the loop)
AfterRecordBreak(i, n, ok) == IF ok THEN i + 1 ELSE n + 1

\* the loop position after a record: "continue" in the except branch
AfterRecord(i, n, ok) == i + 1

Idle ==
    [pc |-> "idle", msgs |-> <<>>, mi |-> 0, phase |-> 0, batch |-> <<>>, i |-> 0,
     bulk_actions |-> <<>>, processed_count |-> 0, batch_total |-> 0,
     total_processed |-> 0, redis_client |-> FALSE, error |-> "none"]

\* no response yet: the request is being served
NoResponse == [handler |-> "none", statusCode |-> 0, processed |-> 0]

Response500 == [handler |-> "write", statusCode |-> 500, processed |-> 0]

Response200(n) == [handler |-> "write", statusCode |-> 200, processed |-> n]

\* lambda_handler: processor = DataProcessor(); the payload is one message
Invoke(Payloads) ==
    /\ w.pc = "idle"
    /\ ninv < MaxInvocations
    /\ \E msgs \in Payloads :
         w' = [Idle EXCEPT !.pc = "indices", !.msgs = msgs, !.mi = 1]
    /\ ninv' = ninv + 1
    /\ trace' = <<>>
    /\ bulkLog' = <<>>
    /\ resp' = NoResponse
    /\ UNCHANGED <<now, redis, docs, indices, ended, reader, lastIngested, tally, lastSearch,
                 lastLookup, racers>>

\* the indices in the order create_opensearch_indices goes through them
IndexNames == <<"user-events", "product-catalog">>

\* (mutation of AfterEnsure: an error of exists or create is logged, not raised)
AfterEnsureLogged(ensured) == "next_msg"

\* where the handler goes when the first `ensured` indices were found or created
\* and the next store call, if one was left, raised: "raise" in the except branch
AfterEnsure(ensured) == IF ensured = Len(IndexNames) THEN "next_msg" ELSE "raised"

\* create_opensearch_indices: exists / create for both indices; any error is fatal
CreateIndices ==
    /\ w.pc = "indices"
    /\ \E ensured \in 0..Len(IndexNames) :
         /\ indices' = indices \cup {IndexNames[j] : j \in 1..ensured}
         /\ w' = [w EXCEPT !.pc = AfterEnsure(ensured),
                           !.error = IF ensured = Len(IndexNames) THEN "none" ELSE "index"]
         /\ resp' = resp
    /\ UNCHANGED <<now, redis, docs, ninv, ended, reader, trace, bulkLog, lastIngested, tally, lastSearch,
                 lastLookup, racers>>

\* the loop over the messages, and the 200 response after the last one
NextMsg ==
    /\ w.pc = "next_msg"
    /\ IF w.mi > Len(w.msgs)
       THEN /\ w' = Idle
            /\ resp' = Response200(w.total_processed)
            /\ trace' = <<>>
            /\ bulkLog' = <<>>
            /\ ended' = Append(ended, "none")
       ELSE IF ~w.msgs[w.mi].parsable
       THEN /\ w' = [w EXCEPT !.pc = "raised", !.error = "json"]
            /\ resp' = resp
            /\ UNCHANGED <<trace, bulkLog, ended>>
       ELSE /\ w' = [w EXCEPT !.pc = "begin", !.phase = PhaseFrom(w.msgs[w.mi], 1),
                              !.batch_total = 0]
            /\ resp' = resp
            /\ UNCHANGED <<trace, bulkLog, ended>>
    /\ UNCHANGED <<now, redis, docs, indices, ninv, lastIngested, tally, lastSearch,
                 lastLookup, racers, reader>>

\* process_data_batch returns; or process_* starts: the clients, the empty lists
Begin ==
    /\ w.pc = "begin"
    /\ IF w.phase = 4
       THEN /\ w' = [w EXCEPT !.pc = "next_msg", !.mi = @ + 1,
                              !.total_processed = @ + w.batch_total]
            /\ resp' = resp
       ELSE \E connected \in BOOLEAN :
              IF w.redis_client \/ connected
              THEN /\ w' = [w EXCEPT !.pc = "loop", !.redis_client = TRUE,
                                     !.batch = PhaseBatch(w.msgs[w.mi], w.phase),
                                     !.i = 1, !.bulk_actions = <<>>,
                                     !.processed_count = 0]
                   /\ resp' = resp
              ELSE /\ w' = [w EXCEPT !.pc = "raised", !.error = "connect"]
                   /\ resp' = resp
    /\ UNCHANGED <<now, redis, docs, indices, ninv, ended, reader, trace, bulkLog, lastIngested, tally, lastSearch,
                 lastLookup, racers>>

\* one iteration of "for event in events" / "for product in products"
RecordStep(Faults) ==
    /\ w.pc = "loop"
    /\ w.i <= Len(w.batch)
    /\ LET rec == w.batch[w.i]
           cmds == CacheCommands(w.phase, rec, now)
       IN  \E failAt \in FailPoints(w.phase, rec, cmds) \cap Faults :
             LET applied == IF failAt = 0 THEN Len(cmds) ELSE failAt - 1
                 ok == Enqueues(failAt, rec)
             IN  /\ redis' = RunCmds(redis, cmds, applied, now)
                 /\ w' = [w EXCEPT
                            !.i = AfterRecord(w.i, Len(w.batch), ok),
                            !.bulk_actions =
                                IF ok THEN Enqueue(@, IndexName(w.phase), rec) ELSE @,
                            !.processed_count = IF ok THEN @ + 1 ELSE @]
                 /\ trace' = Append(trace, [mi |-> w.mi, phase |-> w.phase, rec |-> rec,
                                            failAt |-> failAt])
                 /\ tally' = Tallied(tally, Slots(w.phase, rec, now), failAt)
    /\ UNCHANGED <<now, docs, indices, ninv, ended, reader, bulkLog, lastIngested, resp, lastSearch,
                 lastLookup, racers>>

\* what process_data_batch adds to its total for the call that returned
Counted(k, processed_count) == IF k = 3 THEN 1 ELSE processed_count

\* (mutation of BulkRaises: a response with "errors" raises as well)
BulkRaisesOnErrors(reachable, rejected) == ~reachable \/ rejected # {}

\* opensearch_client.bulk raises when the store cannot be reached; a response
\* with "errors" is logged
BulkRaises(reachable, rejected) == ~reachable

AnyRejection == SUBSET (1..(MaxBatch + 1))
NoRejection == {{}}

\* "if bulk_actions:" the bulk call, then the return to process_data_batch
BulkStep(Rejections) ==
    /\ w.pc = "loop"
    /\ w.i > Len(w.batch)
    /\ LET n == Len(w.bulk_actions) \div 2
           returned == [w EXCEPT !.pc = "begin",
                                 !.phase = PhaseFrom(w.msgs[w.mi], w.phase + 1),
                                 !.batch_total = @ + Counted(w.phase, w.processed_count)]
           sent == [k \in 1..n |-> [index |-> w.bulk_actions[2 * k - 1]._index,
                                    rec |-> w.bulk_actions[2 * k]]]
       IN  IF n = 0
           THEN /\ w' = returned
                /\ UNCHANGED <<docs, bulkLog, lastIngested, resp>>
           ELSE \E reachable \in BOOLEAN, rejected \in (SUBSET (1..n)) \cap Rejections :
                  /\ reachable \/ rejected = {}
                  /\ bulkLog' = Append(bulkLog, [mi |-> w.mi, phase |-> w.phase,
                                                 actions |-> w.bulk_actions,
                                                 reachable |-> reachable,
                                                 rejected |-> rejected,
                                                 seen |-> Len(trace)])
                  /\ IF ~BulkRaises(reachable, rejected)
                     THEN /\ docs' = BulkApply(docs, w.bulk_actions, n, rejected)
                          /\ lastIngested' = NoteIngested(lastIngested, sent, n, rejected)
                          /\ w' = returned
                          /\ resp' = resp
                     ELSE /\ docs' = docs
                          /\ lastIngested' = lastIngested
                          /\ w' = [w EXCEPT !.pc = "raised", !.error = "bulk"]
                          /\ resp' = resp
    /\ UNCHANGED <<now, redis, indices, ninv, ended, reader, trace, tally, lastSearch,
                 lastLookup, racers>>

\* (mutation of Except: the handler undoes the cache writes before it answers)
ExceptCompensating ==
    /\ w.pc = "raised"
    /\ w' = Idle
    /\ resp' = Response500
    /\ trace' = <<>>
    /\ bulkLog' = <<>>
    /\ ended' = Append(ended, w.error)
    /\ redis' = <<>>
    /\ UNCHANGED <<now, docs, indices, ninv, lastIngested, tally, lastSearch,
                 lastLookup, racers, reader>>

\* lambda_handler's "except Exception": the 500 response
Except ==
    /\ w.pc = "raised"
    /\ w' = Idle
    /\ resp' = Response500
    /\ trace' = <<>>
    /\ bulkLog' = <<>>
    /\ ended' = Append(ended, w.error)
    /\ UNCHANGED <<now, redis, docs, indices, ninv, lastIngested, tally, lastSearch,
                 lastLookup, racers, reader>>

\* the runtime ends the invocation at its timeout: nothing more runs, no handler
\* response is returned.  Inside the loop the record at hand has issued its first
\* n cache commands.
Stop ==
    /\ w.pc \notin {"idle", "raised"}
    /\ IF w.pc = "loop" /\ w.i <= Len(w.batch)
       THEN LET rec == w.batch[w.i]
                cmds == CacheCommands(w.phase, rec, now)
            IN  \E n \in 0..Len(cmds) :
                  /\ n + 1 \in FailPoints(w.phase, rec, cmds) \cup {Len(cmds) + 1}
                  /\ redis' = RunCmds(redis, cmds, n, now)
                  /\ tally' = IF n = 0 THEN tally
                              ELSE Tallied(tally, Slots(w.phase, rec, now),
                                           IF n = Len(cmds) THEN 0 ELSE n + 1)
       ELSE UNCHANGED <<redis, tally>>
    /\ w' = Idle
    /\ trace' = <<>>
    /\ bulkLog' = <<>>
    /\ ended' = Append(ended, "stopped")
    /\ UNCHANGED <<now, docs, indices, ninv, lastIngested, resp, lastSearch, lastLookup,
                 racers, reader>>

\* time passes; expired keys disappear
Advance(Durations, horizon) ==
    /\ \E d \in Durations :
         /\ now + d < horizon
         /\ now' = now + d
         /\ redis' = Live(redis, now + d)
         /\ tally' = [s \in {x \in DOMAIN tally : x[1] \in DOMAIN Live(redis, now + d)}
                         |-> tally[s]]
    /\ UNCHANGED <<docs, indices, w, ninv, ended, reader, trace, bulkLog, lastIngested, resp, lastSearch,
                 lastLookup, racers>>

----------------------------------------------------------------------------
(* Write invocations side by side, one store call per step:                  *)
(* create_opensearch_indices, then either a payload that holds no record or  *)
(* the cache commands and the bulk request of a list of events               *)

Racers == 1..MaxRacers

IdleRacer == [pc |-> "idle", k |-> 0, statusCode |-> 0, fault |-> FALSE]

NoRacers == [p \in Racers |-> IdleRacer]

\* where the loop over the indices goes after index k
AfterIndex(r) ==
    IF r.k < Len(IndexNames)
    THEN [r EXCEPT !.pc = "exists", !.k = @ + 1]
    ELSE [r EXCEPT !.pc = "process"]

\* lambda_handler is invoked in process p
RacerInvoke(p) ==
    /\ racers[p].pc = "idle"
    /\ racers' = [racers EXCEPT ![p] = [IdleRacer EXCEPT !.pc = "exists", !.k = 1]]
    /\ UNCHANGED <<now, redis, docs, indices, w, ninv, ended, reader, trace, bulkLog, lastIngested, tally,
                   resp, lastSearch, lastLookup>>

\* "if not opensearch_client.indices.exists(index=index_name)"
RacerExists(p, Faults) ==
    /\ racers[p].pc = "exists"
    /\ \E fault \in Faults :
         racers' = [racers EXCEPT ![p] =
            IF fault THEN [@ EXCEPT !.pc = "raised", !.fault = TRUE]
            ELSE IF IndexNames[@.k] \in indices THEN AfterIndex(@)
            ELSE [@ EXCEPT !.pc = "create"]]
    /\ UNCHANGED <<now, redis, docs, indices, w, ninv, ended, reader, trace, bulkLog, lastIngested, tally,
                   resp, lastSearch, lastLookup>>

\* opensearch_client.indices.create raises when the store cannot be reached and
\* when the index exists (resource_already_exists_exception); the except branch
\* logs and raises again
CreateRaises(name, ix, fault) == fault \/ name \in ix

\* "opensearch_client.indices.create(index=index_name, body=mapping)"
RacerCreate(p, Faults) ==
    /\ racers[p].pc = "create"
    /\ \E fault \in Faults :
         IF CreateRaises(IndexNames[racers[p].k], indices, fault)
         THEN /\ racers' = [racers EXCEPT ![p] = [@ EXCEPT !.pc = "raised", !.fault = fault]]
              /\ indices' = indices
         ELSE /\ racers' = [racers EXCEPT ![p] = AfterIndex(@)]
              /\ indices' = indices \cup {IndexNames[racers[p].k]}
    /\ UNCHANGED <<now, redis, docs, w, ninv, ended, reader, trace, bulkLog, lastIngested, tally,
                   resp, lastSearch, lastLookup>>

\* process_data_batch on a payload without events, products or event_type, and
\* the 200 response
RacerProcess(p) ==
    /\ racers[p].pc = "process"
    /\ racers' = [racers EXCEPT ![p] = [@ EXCEPT !.pc = "done", !.statusCode = 200]]
    /\ UNCHANGED <<now, redis, docs, indices, w, ninv, ended, reader, trace, bulkLog, lastIngested, tally,
                   resp, lastSearch, lastLookup>>

\* process_user_events starts on the events of the payload of process p
RacerBegin(p, Batches) ==
    /\ racers[p].pc = "process"
    /\ \E events \in Batches :
         racers' = [racers EXCEPT ![p] =
            [@ EXCEPT !.pc = "cache"]
                @@ [batch |-> events, i |-> 1, c |-> 1, bulk_actions |-> <<>>]]
    /\ UNCHANGED <<now, redis, docs, indices, w, ninv, ended, reader, trace, bulkLog,
                   lastIngested, tally, resp, lastSearch, lastLookup>>

\* the position of process p after command c of record i: the next command, or
\* the next record with this one enqueued
AfterCommand(r, last) ==
    IF ~last THEN [r EXCEPT !.c = @ + 1]
    ELSE [r EXCEPT !.i = @ + 1, !.c = 1,
                   !.bulk_actions = Enqueue(@, IndexName(1), r.batch[r.i])]

\* one redis command of cache_user_data in process p: the server runs it as a
\* whole; when it raises, the except branch of the loop goes to the next event
RacerCommand(p, FaultAt) ==
    /\ racers[p].pc = "cache"
    /\ racers[p].i <= Len(racers[p].batch)
    /\ LET r == racers[p]
           rec == r.batch[r.i]
           cmds == cache_user_data(rec, now)
       IN  \E raises \in {FALSE} \cup {r.c \in FaultAt} :
             IF raises
             THEN /\ redis' = redis
                  /\ racers' = [racers EXCEPT ![p] = [r EXCEPT !.i = @ + 1, !.c = 1]]
                  /\ tally' = Tallied(tally, Slots(1, rec, now), r.c)
             ELSE /\ redis' = ApplyCmd(redis, cmds[r.c], now)
                  /\ racers' = [racers EXCEPT ![p] = AfterCommand(r, r.c = Len(cmds))]
                  /\ tally' = IF r.c = Len(cmds)
                              THEN Tallied(tally, Slots(1, rec, now), 0) ELSE tally
    /\ UNCHANGED <<now, docs, indices, w, ninv, ended, reader, trace, bulkLog,
                   lastIngested, resp, lastSearch, lastLookup>>

\* the bulk request of process p after its loop, and its 200 response
RacerBulk(p) ==
    /\ racers[p].pc = "cache"
    /\ racers[p].i > Len(racers[p].batch)
    /\ LET actions == racers[p].bulk_actions
           n == Len(actions) \div 2
           sent == [k \in 1..n |-> [index |-> actions[2 * k - 1]._index,
                                    rec |-> actions[2 * k]]]
       IN  /\ docs' = BulkApply(docs, actions, n, {})
           /\ lastIngested' = NoteIngested(lastIngested, sent, n, {})
    /\ racers' = [racers EXCEPT ![p] = [@ EXCEPT !.pc = "done", !.statusCode = 200]]
    /\ UNCHANGED <<now, redis, indices, w, ninv, ended, reader, trace, bulkLog, tally, resp,
                   lastSearch, lastLookup>>

\* lambda_handler's "except Exception": the 500 response
RacerExcept(p) ==
    /\ racers[p].pc = "raised"
    /\ racers' = [racers EXCEPT ![p] = [@ EXCEPT !.pc = "done", !.statusCode = 500]]
    /\ UNCHANGED <<now, redis, docs, indices, w, ninv, ended, reader, trace, bulkLog, lastIngested, tally,
                   resp, lastSearch, lastLookup>>

StoreFaults == BOOLEAN

NextRace ==
    \E p \in Racers :
        \/ RacerInvoke(p)
        \/ RacerExists(p, StoreFaults)
        \/ RacerCreate(p, StoreFaults)
        \/ RacerProcess(p)
        \/ RacerExcept(p)

----------------------------------------------------------------------------
(* The cache: reads *)

\* the byte order of the members that occur, for ties between equal scores
LexOrder ==
    <<"L01", "L02", "L03", "L04", "L05", "L06", "L07", "L08", "L09", "L10", "L11",
      "P", "Q", "gaming laptop", "phone">>

LexRank(m) == CHOOSE i \in 1..Len(LexOrder) : LexOrder[i] = m

\* the member ZREVRANGE puts first: highest score, then highest member
ZTop(z, S) ==
    CHOOSE m \in S :
      \A o \in S : z[o] < z[m] \/ (z[o] = z[m] /\ LexRank(o) <= LexRank(m))

RECURSIVE ZRevSorted(_, _)
ZRevSorted(z, S) ==
    IF S = {} THEN <<>>
    ELSE LET m == ZTop(z, S)
         IN  <<[member |-> m, score |-> z[m]]>> \o ZRevSorted(z, S \ {m})

\* ZREVRANGE key 0 stop WITHSCORES: an absent key is an empty sorted set
ZRevRange(r, k, stop) ==
    IF Exists(r, k)
    THEN LET all == ZRevSorted(r[k].val, DOMAIN r[k].val)
         IN  SubSeq(all, 1, IF Len(all) < stop + 1 THEN Len(all) ELSE stop + 1)
    ELSE <<>>

----------------------------------------------------------------------------
(* QueryGateway: analytics *)

AnalyticsEventTypes == <<"view", "click", "purchase", "search", "add_to_cart">>

\* the index of the last entry ZREVRANGE is asked for
TopStop == 9

\* (mutation of CounterValue: an absent counter reads as one)
CounterValueOrOne(r, date, event_type) ==
    IF Exists(r, CounterKey(date, event_type))
    THEN IntOfStr(r[CounterKey(date, event_type)].val)
    ELSE 1

\* "count = redis_client.get(counter_key) or 0; int(count)"
CounterValue(r, date, event_type) ==
    IF Exists(r, CounterKey(date, event_type))
    THEN IntOfStr(r[CounterKey(date, event_type)].val)
    ELSE 0

RECURSIVE SumCounts(_, _)
SumCounts(counts, n) ==
    IF n = 0 THEN 0 ELSE SumCounts(counts, n - 1) + counts[AnalyticsEventTypes[n]]

AnalyticsBody(r, t) ==
    LET today == Today(t)
        event_counts ==
            [ty \in {AnalyticsEventTypes[j] : j \in 1..Len(AnalyticsEventTypes)} |->
                CounterValue(r, today, ty)]
    IN  [handler |-> "analytics", statusCode |-> 200, date |-> today,
         popular_products |-> ZRevRange(r, PopularKey, TopStop),
         popular_searches |-> ZRevRange(r, SearchQueriesKey(today), TopStop),
         event_counts |-> event_counts,
         total_events |-> SumCounts(event_counts, Len(AnalyticsEventTypes))]

ReadError(handler) == [handler |-> handler, statusCode |-> 500]

\* GET /analytics: a failed connection or a failed read answers 500
AnalyticsUnder(Faults) ==
    /\ \E fault \in Faults :
         resp' = IF fault = "none" THEN AnalyticsBody(redis, now) ELSE ReadError("analytics")
    /\ UNCHANGED <<now, redis, docs, indices, w, ninv, ended, reader, trace, bulkLog, lastIngested, tally, lastSearch,
                 lastLookup, racers>>

Analytics == AnalyticsUnder({"none", "connect", "read"})

----------------------------------------------------------------------------
(* GET /search: cache-aside over the document store *)

\* query_params.get(name, default)
Param(v, default) == IF v = NoVal THEN default ELSE v

\* int(s) raises unless s is a decimal number
IsInt(s) == Len(s) > 0 /\ \A j \in 1..Len(s) : \E d \in 1..10 : DigitChars[d] = s[j]

Min(a, b) == IF a < b THEN a ELSE b

\* the text of a parameter as it enters an f-string: a ':' inside it is a ':' of
\* the key like any other
Tokens(s) ==
    CASE s = "x:5" -> <<"x", ":", "5">>
      [] s = "user-events:x" -> <<"user-events", ":", "x">>
      [] OTHER -> <<s>>

\* f"search_cache:{index}:{query}:{size}"
SearchCacheKey(index, query, size) ==
    <<"search_cache", ":">> \o Tokens(index) \o <<":">> \o Tokens(query) \o <<":">>
        \o StrOfInt(size)

\* the fields multi_match looks into
SearchFields == {"name", "description", "category", "search_query", "event_type"}

\* (mutation of Matches: '*' is looked for in the fields like any other query)
MatchesInFieldsOnly(source, query) ==
    \E f \in SearchFields \cap DOMAIN source : source[f] = query

\* '*' is match_all; any other query matches a document one of whose searched
\* fields holds it (fuzziness and analysis are left out)
Matches(source, query) ==
    \/ query = "*"
    \/ \E f \in SearchFields \cap DOMAIN source : source[f] = query

\* the order of the timestamps that occur
TimeOrder == <<"t1", "t2">>

TimeRank(ts) == CHOOSE i \in 1..Len(TimeOrder) : TimeOrder[i] = ts

\* sort by timestamp, descending (all matches of a query score alike)
Newest(S) ==
    CHOOSE x \in S :
      \A o \in S : TimeRank(o.source.timestamp) <= TimeRank(x.source.timestamp)

RECURSIVE SortedHits(_)
SortedHits(S) ==
    IF S = {} THEN <<>>
    ELSE <<Newest(S).source>> \o SortedHits(S \ {Newest(S)})

\* opensearch_client.search(index, body) and the formatting of its response
SearchResults(d, index, query, size) ==
    LET found == {x \in d : x.index = index /\ Matches(x.source, query)}
        sorted == SortedHits(found)
    IN  [hits |-> SubSeq(sorted, 1, Min(size, Len(sorted))),
         total |-> Cardinality(found),
         max_score |-> IF query = "*" \/ found = {} THEN "None" ELSE "1.0"]

\* the order in which the keys of a document are written
FieldOrder ==
    <<"id", "user_id", "session_id", "timestamp", "event_type", "product_id",
      "search_query", "price", "name", "category", "brand">>

\* json.dumps of one document: its (key, value) pairs in order
DumpObject(obj) ==
    LET keys == SelectSeq(FieldOrder, LAMBDA f : f \in DOMAIN obj)
    IN  [j \in 1..Len(keys) |-> <<keys[j], obj[keys[j]]>>]

\* json.loads of one document
LoadObject(pairs) ==
    [f \in {pairs[j][1] : j \in 1..Len(pairs)} |->
        pairs[CHOOSE j \in 1..Len(pairs) : pairs[j][1] = f][2]]

\* json.dumps(results): the text kept in the cache; numbers in decimal, None as null
JsonDumps(results) ==
    << [j \in 1..Len(results.hits) |-> DumpObject(results.hits[j])],
       StrOfInt(results.total),
       IF results.max_score = "None" THEN "null" ELSE results.max_score >>

\* (mutation of JsonLoads: max_score is not restored)
JsonLoadsWithoutScore(text) ==
    [hits |-> [j \in 1..Len(text[1]) |-> LoadObject(text[1][j])],
     total |-> IntOfStr(text[2]),
     max_score |-> "None"]

\* json.loads(cached_result)
JsonLoads(text) ==
    [hits |-> [j \in 1..Len(text[1]) |-> LoadObject(text[1][j])],
     total |-> IntOfStr(text[2]),
     max_score |-> IF text[3] = "null" THEN "None" ELSE text[3]]

\* (mutation of CacheHit: the lookup never finds the entry)
CacheHitNever(r, k) == FALSE

\* "cached_result = redis_client.get(cache_key); if cached_result:"
CacheHit(r, k) == Exists(r, k) /\ Len(r[k].val) > 0

\* (mutation of StoreResult: the entry is kept for an hour)
StoreResultForAnHour(r, k, results, t) == SetEx(r, k, ProductSearchTTL, JsonDumps(results), t)

\* redis_client.setex(cache_key, 300, json.dumps(results))
StoreResult(r, k, results, t) == SetEx(r, k, SearchCacheTTL, JsonDumps(results), t)

NoSearch == [path |-> "none"]

\* (mutation of CappedSize: the size is taken as asked)
UncappedSize(size) == IntOfStr(size)

\* "size = min(int(query_params.get('size', 10)), 100)"
CappedSize(size) == Min(IntOfStr(size), MaxSize)

SearchResponse(query, index, cached, results) ==
    [handler |-> "search", statusCode |-> 200, query |-> query, index |-> index,
     cached |-> cached, results |-> results]

SearchFailed == [handler |-> "search", statusCode |-> 500, error |-> "Search failed"]

\* what may go wrong in one request: a client that cannot be initialised
\* (for redis: the ping fails), a failed GET, a failed search, a failed SETEX
SearchFaults == {"none", "opensearch_client", "connect", "get", "search", "setex", "get+setex"}

\* (mutation of handle_search: a failed query is cached as an empty result)
handle_search_caching_failure(req, fault, r, d, ix, t) ==
    LET query == Param(req.q, "*")
        index == Param(req.index, "user-events")
        Note(key, hit, queried, stored) ==
            [path |-> "/search", req |-> req, fault |-> fault, at |-> t, key |-> key,
             hit |-> hit, queried |-> queried, stored |-> stored,
             size |-> IF IsInt(req.size) THEN CappedSize(req.size) ELSE 0]
    IN  IF fault \in {"opensearch_client", "connect"} \/ ~IsInt(req.size)
        THEN [resp |-> ReadError("search"), redis |-> r,
              note |-> Note(<<>>, FALSE, FALSE, FALSE)]
        ELSE
          LET size == CappedSize(req.size)
              cache_key == SearchCacheKey(index, query, size)
          IN  IF fault \notin {"get", "get+setex"} /\ CacheHit(r, cache_key)
              THEN [resp |-> SearchResponse(query, index, TRUE, JsonLoads(r[cache_key].val)),
                    redis |-> r,
                    note |-> Note(cache_key, TRUE, FALSE, FALSE)]
              ELSE IF fault = "search" \/ index \notin ix
              THEN [resp |-> SearchFailed,
                    redis |-> StoreResult(r, cache_key,
                                          [hits |-> <<>>, total |-> 0, max_score |-> "None"], t),
                    note |-> Note(cache_key, FALSE, TRUE, FALSE)]
              ELSE
                LET results == SearchResults(d, index, query, size)
                    stores == fault \notin {"setex", "get+setex"}
                IN  [resp |-> SearchResponse(query, index, FALSE, results),
                     redis |-> IF stores THEN StoreResult(r, cache_key, results, t) ELSE r,
                     note |-> Note(cache_key, FALSE, TRUE, stores)]

\* handle_search under lambda_handler: the response, the cache afterwards, and a
\* note of what the handler did
handle_search(req, fault, r, d, ix, t) ==
    LET query == Param(req.q, "*")
        index == Param(req.index, "user-events")
        Note(key, hit, queried, stored) ==
            [path |-> "/search", req |-> req, fault |-> fault, at |-> t, key |-> key,
             hit |-> hit, queried |-> queried, stored |-> stored,
             size |-> IF IsInt(req.size) THEN CappedSize(req.size) ELSE 0]
    IN  IF fault \in {"opensearch_client", "connect"} \/ ~IsInt(req.size)
        THEN [resp |-> ReadError("search"), redis |-> r,
              note |-> Note(<<>>, FALSE, FALSE, FALSE)]
        ELSE
          LET size == CappedSize(req.size)
              cache_key == SearchCacheKey(index, query, size)
          IN  IF fault \notin {"get", "get+setex"} /\ CacheHit(r, cache_key)
              THEN [resp |-> SearchResponse(query, index, TRUE, JsonLoads(r[cache_key].val)),
                    redis |-> r,
                    note |-> Note(cache_key, TRUE, FALSE, FALSE)]
              ELSE IF fault = "search" \/ index \notin ix
              THEN [resp |-> SearchFailed, redis |-> r,
                    note |-> Note(cache_key, FALSE, TRUE, FALSE)]
              ELSE
                LET results == SearchResults(d, index, query, size)
                    stores == fault \notin {"setex", "get+setex"}
                IN  [resp |-> SearchResponse(query, index, FALSE, results),
                     redis |-> IF stores THEN StoreResult(r, cache_key, results, t) ELSE r,
                     note |-> Note(cache_key, FALSE, TRUE, stores)]

\* GET /search?q=..&index=..&size=..
Search(Queries, Indexes, Sizes, Faults) ==
    /\ \E q \in Queries, index \in Indexes, size \in Sizes, fault \in Faults :
         LET out == handle_search([q |-> q, index |-> index, size |-> size],
                                  fault, redis, docs, indices, now)
         IN  /\ resp' = out.resp
             /\ redis' = out.redis
             /\ lastSearch' = out.note
    /\ UNCHANGED <<now, docs, indices, w, ninv, ended, reader, trace, bulkLog, lastIngested, tally,
                   lastLookup, racers>>

----------------------------------------------------------------------------
(* GET /cache and GET /user *)

NoLookup == [path |-> "none"]

\* no key lookup in progress
NoReader == [pc |-> "idle"]

\* (mutation of Ttl: the time of expiry, not the time left)
TtlAbsolute(r, k, t) == r[k].exp

\* redis_client.ttl(key): -1 for a key that has no expiry
Ttl(r, k, t) == IF r[k].exp = NoExp THEN 0 - 1 ELSE r[k].exp - t

Reverse(q) == [j \in 1..Len(q) |-> q[Len(q) + 1 - j]]

\* ZRANGE key 0 -1 WITHSCORES: ascending score, then ascending member
ZRange(r, k) == Reverse(ZRevSorted(r[k].val, DOMAIN r[k].val))

\* list(a set): its members, in any order
ListsOf(S) == {q \in [1..Cardinality(S) -> S] : \A x \in S : \E j \in 1..Cardinality(S) : q[j] = x}

\* the value of a key as key-mode decodes it, under the name of its type
\* (no command of the program creates a list)
KeyValues(r, k) ==
    CASE r[k].type = "string" -> {[string |-> r[k].val]}
      [] r[k].type = "hash" -> {[hash |-> r[k].val]}
      [] r[k].type = "set" -> {[set |-> q] : q \in ListsOf(r[k].val)}
      [] r[k].type = "zset" -> {[zset |-> ZRange(r, k)]}

\* the glob patterns that occur: a literal key, or a literal prefix and "*"
Glob(k, pattern) ==
    IF pattern[Len(pattern)] = "*"
    THEN /\ Len(k) >= Len(pattern) - 1
         /\ SubSeq(k, 1, Len(pattern) - 1) = SubSeq(pattern, 1, Len(pattern) - 1)
    ELSE k = pattern

\* redis_client.keys(pattern)
Keys(r, pattern) == {k \in DOMAIN r : Glob(k, pattern)}

\* S without n of its elements, in every way
RECURSIVE Without(_, _)
Without(S, n) == IF n = 0 THEN {S} ELSE UNION {Without(S \ {x}, n - 1) : x \in S}

\* keys[:100]: KEYS returns the keys in no particular order
Capped(S) ==
    IF Cardinality(S) > PatternCap THEN Without(S, Cardinality(S) - PatternCap) ELSE {S}

\* what the loop over the keys enters for a key: nothing for a key that is
\* neither string nor hash, an error text when its commands raise
PatternEntry(r, k, failed) ==
    IF failed THEN <<[error |-> "Error"]>>
    ELSE IF r[k].type = "string" THEN <<[string |-> r[k].val]>>
    ELSE IF r[k].type = "hash" THEN <<[hash |-> r[k].val]>>
    ELSE <<>>

\* (mutation of LookupMode: a request with both parameters is turned away)
LookupModeExactlyOne(key, pattern) ==
    IF (key = <<>>) = (pattern = <<>>) THEN "none"
    ELSE IF key # <<>> THEN "key" ELSE "pattern"

\* "if not key and not pattern", then "if key:", then "elif pattern:"
LookupMode(key, pattern) ==
    IF key = <<>> /\ pattern = <<>> THEN "none"
    ELSE IF key # <<>> THEN "key" ELSE "pattern"

CacheResponse(status) == [handler |-> "cache", statusCode |-> status]

\* what may go wrong: the client cannot be initialised, a command of the
\* handler raises, the commands for the keys of a pattern raise. Each request
\* builds a new APIHandler, so get_redis_client sets the connection up (and
\* pings) in every request, before the parameters are looked at: setup is TRUE
\* in every note
LookupFaults == {"none", "connect", "read", "entry"}

\* handle_cache_lookup under lambda_handler: the possible responses, each with a
\* note of what the handler did
handle_cache_lookup(key, pattern, fault, r, t) ==
    LET Note(mode, matched) ==
            [path |-> "/cache", key |-> key, pattern |-> pattern, fault |-> fault,
             setup |-> TRUE, mode |-> mode, matched |-> matched]
    IN  IF fault = "connect"
        THEN {[resp |-> ReadError("cache"), note |-> Note("none", {})]}
        ELSE IF LookupMode(key, pattern) = "none"
        THEN {[resp |-> CacheResponse(400), note |-> Note("none", {})]}
        ELSE IF LookupMode(key, pattern) = "key"
        THEN IF fault = "read"
             THEN {[resp |-> CacheResponse(500), note |-> Note("key", {})]}
             ELSE IF Exists(r, key)
             THEN {[resp |-> [handler |-> "cache", statusCode |-> 200, key |-> key,
                              type |-> r[key].type, value |-> v, ttl |-> Ttl(r, key, t)],
                    note |-> Note("key", {key})] : v \in KeyValues(r, key)}
             ELSE {[resp |-> CacheResponse(404), note |-> Note("key", {})]}
        ELSE IF fault = "read"
             THEN {[resp |-> CacheResponse(500), note |-> Note("pattern", {})]}
             ELSE {[resp |-> [handler |-> "cache", statusCode |-> 200, pattern |-> pattern,
                              count |-> Cardinality({k \in keys :
                                           PatternEntry(r, k, fault = "entry") # <<>>}),
                              entries |-> [k \in {x \in keys :
                                                    PatternEntry(r, x, fault = "entry") # <<>>}
                                             |-> PatternEntry(r, k, fault = "entry")[1]]],
                    note |-> Note("pattern", Keys(r, pattern))]
                      : keys \in Capped(Keys(r, pattern))}

\* GET /cache?key=..&pattern=..
CacheLookup(Requests, Faults) ==
    /\ \E req \in Requests, fault \in Faults :
         \E out \in handle_cache_lookup(req.key, req.pattern, fault, redis, now) :
           /\ resp' = out.resp
           /\ lastLookup' = out.note
    /\ UNCHANGED <<now, redis, docs, indices, w, ninv, ended, reader, trace, bulkLog, lastIngested, tally,
                   lastSearch, racers>>

UserResponse(status) == [handler |-> "user", statusCode |-> status]

\* (mutation of handle_user_lookup: a user whose session is gone is not found)
handle_user_lookup_with_session(user_id, fault, r) ==
    LET note ==
            [path |-> "/user", user_id |-> user_id, fault |-> fault, setup |-> TRUE]
        user_key == <<"user", ":", user_id>>
        user_data == IF Exists(r, user_key) THEN r[user_key].val ELSE <<>>
        session_key == <<"session", ":", user_data.current_session>>
    IN  IF fault = "connect"
        THEN [resp |-> ReadError("user"), note |-> note]
        ELSE IF user_id = NoVal
        THEN [resp |-> UserResponse(400), note |-> note]
        ELSE IF fault = "read"
        THEN [resp |-> UserResponse(500), note |-> note]
        ELSE IF user_data = <<>> \/ ~Exists(r, session_key)
        THEN [resp |-> UserResponse(404), note |-> note]
        ELSE [resp |-> [handler |-> "user", statusCode |-> 200, user_id |-> user_id,
                        user_data |-> user_data,
                        session_data |-> r[session_key].val],
              note |-> note]

\* handle_user_lookup under lambda_handler
handle_user_lookup(user_id, fault, r) ==
    LET note ==
            [path |-> "/user", user_id |-> user_id, fault |-> fault, setup |-> TRUE]
        user_key == <<"user", ":", user_id>>
        user_data == IF Exists(r, user_key) THEN r[user_key].val ELSE <<>>
        session_key == <<"session", ":", user_data.current_session>>
    IN  IF fault = "connect"
        THEN [resp |-> ReadError("user"), note |-> note]
        ELSE IF user_id = NoVal
        THEN [resp |-> UserResponse(400), note |-> note]
        ELSE IF fault = "read"
        THEN [resp |-> UserResponse(500), note |-> note]
        ELSE IF user_data = <<>>
        THEN [resp |-> UserResponse(404), note |-> note]
        ELSE [resp |-> [handler |-> "user", statusCode |-> 200, user_id |-> user_id,
                        user_data |-> user_data,
                        session_data |->
                            IF "current_session" \in DOMAIN user_data /\ Exists(r, session_key)
                            THEN r[session_key].val ELSE <<>>],
              note |-> note]

\* GET /user?user_id=..
UserLookup(UserIds, Faults) ==
    /\ \E user_id \in UserIds, fault \in Faults :
         LET out == handle_user_lookup(user_id, fault, redis)
         IN  /\ resp' = out.resp
             /\ lastLookup' = out.note
    /\ UNCHANGED <<now, redis, docs, indices, w, ninv, ended, reader, trace, bulkLog, lastIngested, tally,
                   lastSearch, racers>>

----------------------------------------------------------------------------
(* GET /cache?key=..: the commands of the key lookup one at a time, so that    *)
(* writes and expiry fall between them                                         *)

\* TTL of a key that does not exist
TtlOfAbsent == 0 - 2

\* what the read command of a type returns for a key that is gone: None for GET,
\* nothing for HGETALL, SMEMBERS and ZRANGE
ValueOfAbsent(type) ==
    CASE type = "string" -> [null |-> "None"]
      [] type = "hash" -> [hash |-> <<>>]
      [] type = "set" -> [set |-> <<>>]
      [] type = "zset" -> [zset |-> <<>>]

\* "if redis_client.exists(key):" and the 404 of its else branch
LookupExists(LookupKeySet) ==
    /\ reader.pc = "idle"
    /\ \E key \in LookupKeySet :
         IF Exists(redis, key)
         THEN /\ reader' = [pc |-> "type", key |-> key]
              /\ resp' = NoResponse
         ELSE /\ reader' = NoReader
              /\ resp' = CacheResponse(404)
    /\ UNCHANGED <<now, redis, docs, indices, w, ninv, ended, trace, bulkLog, lastIngested,
                   tally, lastSearch, lastLookup, racers>>

\* "key_type = redis_client.type(key)": 'none' for a key that does not exist
LookupType ==
    /\ reader.pc = "type"
    /\ reader' = [pc |-> "value", key |-> reader.key,
                  type |-> IF Exists(redis, reader.key) THEN redis[reader.key].type
                           ELSE "none"]
    /\ UNCHANGED <<now, redis, docs, indices, w, ninv, ended, trace, bulkLog, lastIngested,
                   tally, resp, lastSearch, lastLookup, racers>>

\* the read command of the type that was seen; no command for an unsupported
\* type; a key that has another type by now makes the command raise
LookupValue ==
    /\ reader.pc = "value"
    /\ IF reader.type = "none"
       THEN /\ reader' = [reader EXCEPT !.pc = "ttl"] @@ [value |-> [string |-> "Unsupported type: none"]]
            /\ resp' = resp
       ELSE IF ~Exists(redis, reader.key)
       THEN /\ reader' = [reader EXCEPT !.pc = "ttl"] @@ [value |-> ValueOfAbsent(reader.type)]
            /\ resp' = resp
       ELSE IF redis[reader.key].type # reader.type
       THEN /\ reader' = NoReader
            /\ resp' = CacheResponse(500)
       ELSE /\ \E v \in KeyValues(redis, reader.key) :
                 reader' = [reader EXCEPT !.pc = "ttl"] @@ [value |-> v]
            /\ resp' = resp
    /\ UNCHANGED <<now, redis, docs, indices, w, ninv, ended, trace, bulkLog, lastIngested,
                   tally, lastSearch, lastLookup, racers>>

\* "ttl = redis_client.ttl(key)" and the 200 response
LookupTtl ==
    /\ reader.pc = "ttl"
    /\ resp' = [handler |-> "cache", statusCode |-> 200, key |-> reader.key,
                type |-> reader.type, value |-> reader.value,
                ttl |-> IF Exists(redis, reader.key) THEN Ttl(redis, reader.key, now)
                        ELSE TtlOfAbsent]
    /\ reader' = NoReader
    /\ UNCHANGED <<now, redis, docs, indices, w, ninv, ended, trace, bulkLog, lastIngested,
                   tally, lastSearch, lastLookup, racers>>

----------------------------------------------------------------------------
(* GET /health and GET /metrics *)

\* (mutation of HealthStatus: the state of the document store is not looked at)
HealthStatusOfCache(redis_ok, opensearch_ok) == IF redis_ok THEN "healthy" ELSE "degraded"

\* 'healthy' unless one of the two except branches set 'degraded'
HealthStatus(redis_ok, opensearch_ok) ==
    IF redis_ok /\ opensearch_ok THEN "healthy" ELSE "degraded"

ServiceText(ok) == IF ok THEN "healthy" ELSE "unhealthy"

\* handle_health_check: the two checks, each in a try block of its own
handle_health_check(redis_ok, opensearch_ok) ==
    [handler |-> "health",
     statusCode |-> IF HealthStatus(redis_ok, opensearch_ok) = "healthy" THEN 200 ELSE 503,
     status |-> HealthStatus(redis_ok, opensearch_ok),
     services |-> [redis |-> ServiceText(redis_ok),
                   opensearch |-> ServiceText(opensearch_ok)]]

\* GET /health: get_redis_client and ping succeed or not, and so do
\* get_opensearch_client and cluster.health
Health ==
    /\ \E redis_ok \in BOOLEAN, opensearch_ok \in BOOLEAN :
         /\ resp' = handle_health_check(redis_ok, opensearch_ok)
         /\ lastLookup' = [path |-> "/health", redis_ok |-> redis_ok,
                           opensearch_ok |-> opensearch_ok]
    /\ UNCHANGED <<now, redis, docs, indices, w, ninv, ended, reader, trace, bulkLog, lastIngested, tally,
                   lastSearch, racers>>

\* (mutation of handle_metrics: an empty cache is reported as an error)
MetricsOfFilledCache(fault, r) ==
    IF fault = "none" /\ DOMAIN r # {}
    THEN [handler |-> "metrics", statusCode |-> 200, total_keys |-> Cardinality(Keys(r, <<"*">>))]
    ELSE ReadError("metrics")

\* handle_metrics: the key count (the INFO fields are left out)
handle_metrics(fault, r) ==
    IF fault = "none"
    THEN [handler |-> "metrics", statusCode |-> 200, total_keys |-> Cardinality(Keys(r, <<"*">>))]
    ELSE ReadError("metrics")

\* GET /metrics: a failed connection or a failed command answers 500
Metrics(Faults) ==
    /\ \E fault \in Faults :
         /\ resp' = handle_metrics(fault, redis)
         /\ lastLookup' = [path |-> "/metrics", fault |-> fault]
    /\ UNCHANGED <<now, redis, docs, indices, w, ninv, ended, reader, trace, bulkLog, lastIngested, tally,
                   lastSearch, racers>>

----------------------------------------------------------------------------
(* Initial state: empty stores, no invocation *)

Init ==
    /\ now = 0
    /\ redis = <<>>
    /\ docs = {}
    /\ indices = {}
    /\ w = Idle
    /\ ninv = 0
    /\ trace = <<>>
    /\ bulkLog = <<>>
    /\ lastIngested = <<>>
    /\ tally = <<>>
    /\ resp = NoResponse
    /\ lastSearch = NoSearch
    /\ lastLookup = NoLookup
    /\ racers = NoRacers
    /\ ended = <<>>
    /\ reader = NoReader

----------------------------------------------------------------------------
(* Ingestion of records that differ in id and body *)

Ev(id, user, session, ts, type, product, query, price) ==
    [id |-> id, user_id |-> user, session_id |-> session, timestamp |-> ts,
     event_type |-> type, product_id |-> product, search_query |-> query,
     price |-> price]

Prod(id, name, category, price) ==
    [id |-> id, name |-> name, category |-> category, price |-> price, brand |-> "acme"]

Data(hasEvents, events, hasProducts, products) ==
    [parsable |-> TRUE, hasEvents |-> hasEvents, events |-> events,
     hasProducts |-> hasProducts, products |-> products,
     hasSingle |-> FALSE, single |-> Ev(NoVal, NoVal, NoVal, NoVal, NoVal, NoVal, NoVal, NoVal)]

IngestEvents ==
    {Ev("e1", "u1", "s1", "t1", "view", NoVal, NoVal, "10"),
     Ev("e1", "u1", "s1", "t1", "view", NoVal, NoVal, "20"),
     Ev(NoVal, "u1", "s1", "t1", "search", "P", "phone", "10")}

IngestProducts == {Prod("p1", "Laptop", "computers", pr) : pr \in {"10", "20"}}

\* event batches, product batches, and payloads that carry one of each
IngestPayloads ==
    {<<Data(TRUE, es, FALSE, <<>>)>> : es \in SeqsUpTo(IngestEvents, MaxBatch)}
        \cup {<<Data(FALSE, <<>>, TRUE, ps)>> : ps \in SeqsUpTo(IngestProducts, MaxProducts)}
        \cup {<<Data(TRUE, <<e>>, TRUE, <<p>>)>> : e \in IngestEvents, p \in IngestProducts}

IngestFaults == {0, 3}

NextIngest ==
    \/ Invoke(IngestPayloads)
    \/ CreateIndices
    \/ NextMsg
    \/ Begin
    \/ RecordStep(IngestFaults)
    \/ BulkStep(AnyRejection)
    \/ Except

SpecIngest == Init /\ [][NextIngest]_vars

----------------------------------------------------------------------------
(* Ingestion of events that differ in type, product and query, and analytics *)

CounterEvents ==
    {Ev("c1", "u1", "s1", "t1", "purchase", "P", NoVal, "10"),
     Ev("c2", "u1", "s1", "t1", "purchase", "Q", NoVal, "10"),
     Ev("c3", "u1", "s1", "t1", "search", "P", "gaming laptop", "10")}

CounterPayloads ==
    {<<Data(TRUE, es, FALSE, <<>>)>> : es \in SeqsUpTo(CounterEvents, MaxCounterBatch)}

\* eleven search events, each with a product and a query of its own
LoadEvents ==
    [j \in 1..11 |-> Ev(LexOrder[j], "u1", "s1", "t1", "search", LexOrder[j], LexOrder[j], "10")]

\* the cache after cache_user_data(LoadEvents[j]) ran to its end on cache r
CachedEvent(r, j) ==
    LET cmds == cache_user_data(LoadEvents[j], 0)
    IN  RunCmds(r, cmds, Len(cmds), 0)

\* the cache after the first 2, 4, ... 11 of the events were cached in order
Loaded02 == CachedEvent(CachedEvent(<<>>, 1), 2)
Loaded04 == CachedEvent(CachedEvent(Loaded02, 3), 4)
Loaded06 == CachedEvent(CachedEvent(Loaded04, 5), 6)
Loaded08 == CachedEvent(CachedEvent(Loaded06, 7), 8)
Loaded10 == CachedEvent(CachedEvent(Loaded08, 9), 10)
LoadedRedis == CachedEvent(Loaded10, 11)

RECURSIVE LoadedTally(_)
LoadedTally(n) ==
    IF n = 0 THEN <<>>
    ELSE Tallied(LoadedTally(n - 1), Slots(1, LoadEvents[n], 0), 0)

\* the state after an invocation that cached the eleven events and whose bulk
\* request did not reach the document store
InitLoaded ==
    /\ now = 0
    /\ redis = LoadedRedis
    /\ docs = {}
    /\ indices = {"user-events", "product-catalog"}
    /\ w = Idle
    /\ ninv = 1
    /\ trace = <<>>
    /\ bulkLog = <<>>
    /\ lastIngested = <<>>
    /\ tally = LoadedTally(11)
    /\ resp = Response500
    /\ lastSearch = NoSearch
    /\ lastLookup = NoLookup
    /\ racers = NoRacers
    /\ ended = <<>>
    /\ reader = NoReader

CounterDurations == {CounterTTL}

\* the commands of cache_user_data that raise: the counter INCR, and each EXPIRE
\* that follows an increment
CounterFaults == {0, 5, 6, 8, 10}

NextCounters ==
    \/ Invoke(CounterPayloads)
    \/ CreateIndices
    \/ NextMsg
    \/ Begin
    \/ RecordStep(CounterFaults)
    \/ BulkStep(NoRejection)
    \/ Except
    \/ Advance(CounterDurations, MaxDays * DaySeconds)
    \/ (w.pc = "idle" /\ Analytics)

SpecCounters == (Init \/ InitLoaded) /\ [][NextCounters]_vars

----------------------------------------------------------------------------
(* Searches between ingestions, with time passing *)

SearchEvents ==
    {Ev("a", "u1", "s1", "t1", "search", NoVal, "smartphone", "10"),
     Ev("b", "u1", "s1", "t2", "search", NoVal, "smartphone", "10")}

SearchPayloads == {<<Data(TRUE, <<e>>, FALSE, <<>>)>> : e \in SearchEvents}

SearchQueries == {"smartphone"}

SearchIndexes == {NoVal}

\* size=1, and size=150 and size=200 (both capped to 100)
SearchSizes == {<<"1">>, <<"1", "5", "0">>, <<"2", "0", "0">>}

\* just short of the lifetime of a cached search, and the lifetime itself
SearchDurations == {SearchCacheTTL - 1, SearchCacheTTL}

NoFault == {0}

\* the cache cannot be reached at all, or fails at the GET, at the SETEX or at
\* both; the document store fails at the search
ReadFaults == {"none", "connect", "get", "search", "setex", "get+setex"}

NextSearch ==
    \/ Invoke(SearchPayloads)
    \/ CreateIndices
    \/ NextMsg
    \/ Begin
    \/ RecordStep(NoFault)
    \/ BulkStep(NoRejection)
    \/ Except
    \/ (w.pc = "idle" /\ Advance(SearchDurations, MaxSeconds))
    \/ (w.pc = "idle" /\ Search(SearchQueries, SearchIndexes, SearchSizes, ReadFaults))

SpecSearch == Init /\ [][NextSearch]_vars

----------------------------------------------------------------------------
(* Envelopes of several messages, of every shape *)

\* a message whose body json.loads cannot read
Unparsable == [Data(FALSE, <<>>, FALSE, <<>>) EXCEPT !.parsable = FALSE]

\* a message that is one event: it has 'event_type' and neither list
Single(e) == [Data(FALSE, <<>>, FALSE, <<>>) EXCEPT !.hasSingle = TRUE, !.single = e]

EnvelopeMessages ==
    {Unparsable,
     Data(TRUE, <<Ev("e1", "u1", "s1", "t1", "view", NoVal, NoVal, "10")>>, FALSE, <<>>),
     Data(FALSE, <<>>, TRUE, <<Prod("p1", "Laptop", "computers", "10")>>),
     Single(Ev("e2", "u1", "s1", "t1", "view", NoVal, NoVal, "10"))}

EnvelopePayloads == SeqsUpTo(EnvelopeMessages, MaxMessages) \ {<<>>}

NextEnvelope ==
    \/ Invoke(EnvelopePayloads)
    \/ CreateIndices
    \/ NextMsg
    \/ Begin
    \/ RecordStep(IngestFaults)
    \/ BulkStep(NoRejection)
    \/ Except

SpecEnvelope == Init /\ [][NextEnvelope]_vars

----------------------------------------------------------------------------
(* Lookups by key, by pattern and by user, after ingestions *)

LookupEvent == Ev("e1", "u1", "s1", "t1", "view", "P", NoVal, "10")

\* an event and a product; the event again, and one of another product
LookupPayloads ==
    {<<Data(TRUE, <<LookupEvent>>, TRUE, <<Prod("p1", "Laptop", "computers", "10")>>)>>,
     <<Data(TRUE, <<LookupEvent, [LookupEvent EXCEPT !.id = "e2", !.product_id = "Q"]>>,
            FALSE, <<>>)>>}

\* no command raises, or the EXPIRE of the session hash does
LookupIngestFaults == {0, 2}

\* a key of each type the writers create, a key nobody writes, and no key
LookupKeys ==
    {<<>>, <<"session", ":", "s1">>, <<"product_search", ":", "laptop">>,
     <<"category_products", ":", "computers">>, PopularKey, <<"user", ":", "u9">>}

LookupPatterns ==
    {<<>>, <<"user", ":", "*">>, <<"product_search", ":", "*">>, PopularKey,
     <<"category_products", ":", "*">>}

\* requests with a key, with a pattern, with neither, and one with both
LookupRequests ==
    {[key |-> k, pattern |-> <<>>] : k \in LookupKeys}
        \cup {[key |-> <<>>, pattern |-> p] : p \in LookupPatterns}
        \cup {[key |-> PopularKey, pattern |-> <<"user", ":", "*">>]}

LookupUserIds == {NoVal, "u1", "u9"}

LookupDurations == {SessionTTL \div 2}

\* one more user than a pattern lookup returns
ManyUsers == PatternCap + 1

ManyEvent(j) == Ev(ToString(j), ToString(j), ToString(j), "t1", "view", NoVal, NoVal, "10")

\* the cache after cache_user_data(ManyEvent(j)) ran to its end on an empty cache
CachedAlone(j) ==
    LET cmds == cache_user_data(ManyEvent(j), 0)
    IN  RunCmds(<<>>, cmds, Len(cmds), 0)

\* the cache after the events of ManyUsers users were cached: each event writes
\* a session and a user hash of its own, and all increment the one counter
ManyRedis ==
    LET counter == CounterKey(Today(0), "view")
        keys == UNION {DOMAIN CachedAlone(j) : j \in 1..ManyUsers}
        One(k) == CHOOSE j \in 1..ManyUsers : k \in DOMAIN CachedAlone(j)
    IN  [k \in keys |->
            IF k = counter
            THEN [CachedAlone(1)[k] EXCEPT !.val = StrOfInt(ManyUsers)]
            ELSE CachedAlone(One(k))[k]]

\* the state after the invocations that cached the events of ManyUsers users
\* and whose bulk requests did not reach the document store
InitMany ==
    /\ now = 0
    /\ redis = ManyRedis
    /\ docs = {}
    /\ indices = {"user-events", "product-catalog"}
    /\ w = Idle
    /\ ninv = MaxInvocations
    /\ trace = <<>>
    /\ bulkLog = <<>>
    /\ lastIngested = <<>>
    /\ tally = (<<CounterKey(Today(0), "view"), NoVal>> :> [ok |-> ManyUsers, part |-> 0])
    /\ resp = Response500
    /\ lastSearch = NoSearch
    /\ lastLookup = NoLookup
    /\ racers = NoRacers
    /\ ended = <<>>
    /\ reader = NoReader

\* a lookup changes nothing but the response, so one lookup at the end of each
\* behaviour meets every state of the cache with every request
NextLookup ==
    \/ (lastLookup = NoLookup /\ Invoke(LookupPayloads))
    \/ CreateIndices
    \/ NextMsg
    \/ Begin
    \/ RecordStep(LookupIngestFaults)
    \/ BulkStep(NoRejection)
    \/ Except
    \/ (w.pc = "idle" /\ lastLookup = NoLookup /\ Advance(LookupDurations, SessionTTL + 1))
    \/ (w.pc = "idle" /\ lastLookup = NoLookup /\ CacheLookup(LookupRequests, LookupFaults))
    \/ (w.pc = "idle" /\ lastLookup = NoLookup /\ UserLookup(LookupUserIds, LookupFaults))

SpecLookup == (Init \/ InitMany) /\ [][NextLookup]_vars

----------------------------------------------------------------------------
(* Cold starts side by side on a document store without indices *)

SpecRace == Init /\ [][NextRace]_vars

----------------------------------------------------------------------------
(* Every read endpoint between ingestions, the stores within reach of the reads *)

FlowPayloads ==
    {<<Data(TRUE, <<Ev("e1", "u1", "s1", "t1", "view", NoVal, NoVal, "10")>>, FALSE, <<>>)>>}

FlowQueries == {"*", "smartphone"}

FlowSizes == {<<"5">>}

\* /cache?pattern=user:* and a pattern no key matches
FlowRequests ==
    {[key |-> <<>>, pattern |-> p] : p \in {<<"user", ":", "*">>, <<"nothing", ":", "*">>}}

Reachable == {"none"}

NextFlow ==
    \/ Invoke(FlowPayloads)
    \/ CreateIndices
    \/ NextMsg
    \/ Begin
    \/ RecordStep(NoFault)
    \/ BulkStep(NoRejection)
    \/ Except
    \/ (w.pc = "idle" /\ Advance({SearchCacheTTL}, SearchCacheTTL + 1))
    \/ (w.pc = "idle" /\ Search(FlowQueries, SearchIndexes, FlowSizes, Reachable))
    \/ (w.pc = "idle" /\ CacheLookup(FlowRequests, Reachable))
    \/ (w.pc = "idle" /\ Health)
    \/ (w.pc = "idle" /\ Metrics(Reachable))
    \/ (w.pc = "idle" /\ AnalyticsUnder(Reachable))

SpecFlow == Init /\ [][NextFlow]_vars

----------------------------------------------------------------------------
(* One batch, ingested again after an attempt that did not reach the index *)

RetryEvents ==
    <<Ev("e1", "u1", "s1", "t1", "view", "P", NoVal, "10"),
      Ev("e2", "u2", "s2", "t2", "view", "P", NoVal, "10")>>

RetryProducts == <<Prod("p1", "Laptop", "computers", "10")>>

RetryPayloads == {<<Data(TRUE, RetryEvents, TRUE, RetryProducts)>>}

NextRetry ==
    \/ Invoke(RetryPayloads)
    \/ CreateIndices
    \/ NextMsg
    \/ Begin
    \/ RecordStep(IngestFaults)
    \/ BulkStep(NoRejection)
    \/ Except
    \/ Stop

SpecRetry == Init /\ [][NextRetry]_vars

----------------------------------------------------------------------------
(* Every read endpoint on stores that hold a batch, the cache failing now and then *)

\* the cache fails at the GET, at the SETEX or not at all; the document store fails
\* at the search
ReadsSearchFaults == {"none", "get", "setex", "search"}

ReadsUserIds == {"u1", "u9"}

\* a key that exists, a key that does not, and the patterns of the flow
ReadsRequests ==
    FlowRequests \cup {[key |-> k, pattern |-> <<>>] :
                          k \in {<<"user", ":", "u1">>, <<"user", ":", "u9">>}}

ReadsDurations == {SearchCacheTTL \div 2}

\* the endpoints other than /search change nothing but the response, so one of
\* them at the end of each behaviour meets every state of the stores
NextReads ==
    \/ (lastLookup = NoLookup /\ Invoke(FlowPayloads))
    \/ CreateIndices
    \/ NextMsg
    \/ Begin
    \/ RecordStep(NoFault)
    \/ BulkStep(NoRejection)
    \/ Except
    \/ (w.pc = "idle" /\ lastLookup = NoLookup
           /\ Advance(ReadsDurations, SearchCacheTTL + 1))
    \/ (w.pc = "idle" /\ lastLookup = NoLookup
           /\ Search(FlowQueries, SearchIndexes, FlowSizes, ReadsSearchFaults))
    \/ (w.pc = "idle" /\ lastLookup = NoLookup /\ CacheLookup(ReadsRequests, Reachable))
    \/ (w.pc = "idle" /\ lastLookup = NoLookup /\ UserLookup(ReadsUserIds, Reachable))
    \/ (w.pc = "idle" /\ lastLookup = NoLookup /\ Health)
    \/ (w.pc = "idle" /\ lastLookup = NoLookup /\ Metrics(Reachable))
    \/ (w.pc = "idle" /\ lastLookup = NoLookup /\ AnalyticsUnder(Reachable))

SpecReads == Init /\ [][NextReads]_vars

----------------------------------------------------------------------------
(* Searches whose parameters hold a ':' *)

FingerprintPayloads ==
    {<<Data(TRUE, <<Ev("e1", "u1", "s1", "t1", "search", NoVal, "x:5", "10")>>, FALSE, <<>>)>>}

FingerprintQueries == {"x:5", "5", "*"}

\* the default index, and a name no index has
FingerprintIndexes == {NoVal, "user-events:x"}

NextFingerprint ==
    \/ Invoke(FingerprintPayloads)
    \/ CreateIndices
    \/ NextMsg
    \/ Begin
    \/ RecordStep(NoFault)
    \/ BulkStep(NoRejection)
    \/ Except
    \/ (w.pc = "idle"
           /\ Search(FingerprintQueries, FingerprintIndexes, FlowSizes, Reachable))

SpecFingerprint == Init /\ [][NextFingerprint]_vars

----------------------------------------------------------------------------
(* Key lookups while the keys are written and expire *)

StalePayloads ==
    {<<Data(TRUE, <<Ev("e1", "u1", "s1", "t1", "view", NoVal, NoVal, "10")>>,
            TRUE, <<Prod("p1", "Laptop", "computers", "10")>>)>>}

\* a hash and a string, both with an hour to live
StaleKeys == {<<"session", ":", "s1">>, <<"product_search", ":", "laptop">>}

StaleDurations == {SessionTTL \div 2}

NextStale ==
    \/ Invoke(StalePayloads)
    \/ CreateIndices
    \/ NextMsg
    \/ Begin
    \/ RecordStep(NoFault)
    \/ BulkStep(NoRejection)
    \/ Except
    \/ (w.pc = "idle" /\ Advance(StaleDurations, SessionTTL + 1))
    \/ LookupExists(StaleKeys)
    \/ LookupType
    \/ LookupValue
    \/ LookupTtl

SpecStale == Init /\ [][NextStale]_vars

----------------------------------------------------------------------------
(* Two write invocations whose cache commands interleave *)

Writers == 1..2

\* views and a purchase of one product on one day, by different users
WriterEvents ==
    {Ev("e1", "u1", "s1", "t1", "view", "P", NoVal, "10"),
     Ev("e2", "u2", "s2", "t1", "view", "P", NoVal, "10"),
     Ev("e3", "u1", "s1", "t2", "purchase", "P", NoVal, "10")}

WriterBatches == {<<a>> : a \in WriterEvents} \cup {<<a, b>> : a, b \in WriterEvents}

\* the commands that may raise: the EXPIRE of the counter, after its INCR
WriterFaultAt == {6}

Reached == {FALSE}

NextWriters ==
    \E p \in Writers :
        \/ RacerInvoke(p)
        \/ RacerExists(p, Reached)
        \/ RacerCreate(p, Reached)
        \/ RacerBegin(p, WriterBatches)
        \/ RacerCommand(p, WriterFaultAt)
        \/ RacerBulk(p)
        \/ RacerExcept(p)

SpecWriters == Init /\ [][NextWriters]_vars

----------------------------------------------------------------------------
(* Batches whose events share a session and a user and come out of time order *)

\* two events of one session, the second older than the first
OrderEvents ==
    {Ev("e1", "u1", "s1", "t2", "view", NoVal, NoVal, "10"),
     Ev("e2", "u1", "s1", "t1", "purchase", NoVal, NoVal, "10")}

OrderPayloads == {<<Data(TRUE, es, FALSE, <<>>)>> : es \in SeqsUpTo(OrderEvents, MaxBatch)}

\* no command raises, or the HSET of the session, or the HSET of the user
OrderFaults == {0, 1, 3}

NextOrder ==
    \/ Invoke(OrderPayloads)
    \/ CreateIndices
    \/ NextMsg
    \/ Begin
    \/ RecordStep(OrderFaults)
    \/ BulkStep(NoRejection)
    \/ Except

SpecOrder == Init /\ [][NextOrder]_vars

----------------------------------------------------------------------------
(* Properties *)

\* the records of call (m, k) = (message, phase) that were tried so far
CallTrace(m, k) ==
    LET OfCall(x) == x.mi = m /\ x.phase = k
    IN  SelectSeq(trace, OfCall)

\* the bulk requests call (m, k) issued
CallBulks(m, k) ==
    LET OfCall(x) == x.mi = m /\ x.phase = k
    IN  SelectSeq(bulkLog, OfCall)

\* the source lines of a bulk body, and its action lines
Sources(actions) == [j \in 1..(Len(actions) \div 2) |-> actions[2 * j]]
ActionLines(actions) == [j \in 1..(Len(actions) \div 2) |-> actions[2 * j - 1]]

RecsOf(T) == [j \in 1..Len(T) |-> T[j].rec]

\* the records of a call whose cache write raised nothing
CachedRecs(T) ==
    LET Cached(x) == x.failAt = 0
    IN  RecsOf(SelectSeq(T, Cached))

\* ... and whose id could be read for the action line
EnqueuedRecs(T) ==
    LET Fine(x) == x.failAt = 0 /\ x.rec.id # NoVal
    IN  RecsOf(SelectSeq(T, Fine))

\* the call has returned to process_data_batch
CallDone(m, k) ==
    /\ w.pc \in {"begin", "loop", "next_msg"}
    /\ m < w.mi \/ (m = w.mi /\ k < w.phase)

\* C1: each index holds at most one document per record id, and that document is
\* the source of the last record with that id the document store accepted;
\* a second ingest of an id overwrites, for user-events and for product-catalog.
C1_UpsertNotDuplicate ==
    /\ \A d1, d2 \in docs :
         (d1.index = d2.index /\ d1.source.id = d2.source.id) => d1 = d2
    /\ \A d \in docs :
         /\ <<d.index, d.source.id>> \in DOMAIN lastIngested
         /\ d.source = lastIngested[<<d.index, d.source.id>>]
    /\ \A key \in DOMAIN lastIngested :
         \E d \in docs : d.index = key[1] /\ d.source.id = key[2]

\* one request carried the same id twice with different bodies, both accepted:
\* the index holds the second body only
C1_Witness ==
    \E j \in 1..Len(bulkLog) :
      LET b == bulkLog[j]
      IN  /\ b.reachable /\ b.rejected = {}
          /\ Len(b.actions) = 4
          /\ b.actions[1]._id = b.actions[3]._id
          /\ b.actions[2] # b.actions[4]
          /\ \E d \in docs : d.id = b.actions[3]._id /\ d.source = b.actions[4]
          /\ ~ \E d \in docs : d.id = b.actions[1]._id /\ d.source = b.actions[2]

\* the cache keys every cached record leaves behind (no key expires in between)
LeftInCache(k, rec) ==
    IF k = 2
    THEN /\ Exists(redis, <<"product", ":", rec.id>>)
         /\ redis[<<"product", ":", rec.id>>].val.name = rec.name
         /\ Exists(redis, <<"product_search", ":", Lower(rec.name)>>)
    ELSE /\ Exists(redis, <<"session", ":", rec.session_id>>)
         /\ redis[<<"session", ":", rec.session_id>>].val.user_id = rec.user_id
         /\ Exists(redis, <<"user", ":", rec.user_id>>)
         /\ Exists(redis, <<"counters", ":", Today(now), ":", rec.event_type>>)

\* C2: in process_user_events and process_products a record that raises while it
\* is cached or enqueued is skipped alone: at every point of the loop all records
\* before the position were tried, and those that raised nothing are cached,
\* enqueued in order and counted.
C2_FailedRecordSkippedAlone ==
    w.pc = "loop" =>
      LET T == CallTrace(w.mi, w.phase)
      IN  /\ Len(T) = w.i - 1
          /\ \A j \in 1..Len(T) : T[j].rec = w.batch[j]
          /\ w.processed_count = Len(EnqueuedRecs(T))
          /\ Sources(w.bulk_actions) = EnqueuedRecs(T)
          /\ \A j \in 1..Len(T) : T[j].failAt = 0 => LeftInCache(w.phase, T[j].rec)

\* a batch of three whose second record raised in its cache write: the first and
\* the third are enqueued and counted
C2_Witness ==
    /\ w.pc = "loop" /\ w.i = 4 /\ Len(w.batch) = 3
    /\ LET T == CallTrace(w.mi, w.phase)
       IN  /\ Len(T) = 3
           /\ T[1].failAt = 0 /\ T[2].failAt > 0 /\ T[3].failAt = 0
           /\ T[1].rec.id # NoVal /\ T[3].rec.id # NoVal
    /\ w.processed_count = 2
    /\ Sources(w.bulk_actions) = <<w.batch[1], w.batch[3]>>

\* what is said of the bulk requests of one call, given the records that are to be
\* in its request
BulkOfCall(m, k, expected) ==
    LET B == CallBulks(m, k)
        T == CallTrace(m, k)
    IN  /\ Len(B) <= 1
        /\ Len(B) = 1 =>
             /\ Len(T) = Len(PhaseBatch(w.msgs[m], k))
             /\ \A j \in 1..Len(trace) :
                  (trace[j].mi = m /\ trace[j].phase = k) => j <= B[1].seen
             /\ Sources(B[1].actions) = expected
             /\ expected # <<>>
             /\ \A j \in 1..Len(expected) :
                  /\ ActionLines(B[1].actions)[j]._id = expected[j].id
                  /\ ActionLines(B[1].actions)[j]._index = IndexName(k)
        /\ CallDone(m, k) => (Len(B) = 1 <=> expected # <<>>)

CallsOfInvocation ==
    {c \in (1..Len(w.msgs)) \X (1..3) : HasPhase(w.msgs[c[1]], c[2])}

\* C3 as stated: one bulk request per call, after the cache writes, holding exactly
\* the records whose cache write did not fail
C3_AsStated ==
    \A c \in CallsOfInvocation :
      BulkOfCall(c[1], c[2], CachedRecs(CallTrace(c[1], c[2])))

\* C3 as amended: per call at most one bulk request, issued after all cache writes
\* of the call, holding exactly the records whose cache write did not fail and
\* whose id could be read, each under its own id; none when there is no such record.
C3_BulkHoldsEnqueuedRecords ==
    \A c \in CallsOfInvocation :
      BulkOfCall(c[1], c[2], EnqueuedRecs(CallTrace(c[1], c[2])))

\* a call of three records, one failed in the cache, one without id, one fine:
\* its one request holds the third alone
C3_Witness ==
    \E c \in CallsOfInvocation :
      LET T == CallTrace(c[1], c[2])
          B == CallBulks(c[1], c[2])
      IN  /\ Len(T) = 3 /\ Len(B) = 1
          /\ \E j \in 1..3 : T[j].failAt > 0
          /\ \E j \in 1..3 : T[j].failAt = 0 /\ T[j].rec.id = NoVal
          /\ Len(B[1].actions) = 2

\* the counter keys of the cache
IsCounterKey(k) == k[1] = "counters"

\* C4 (values): a counter whose events were all cached without error holds the
\* number of those events, and every counter key has such events.
C4_CounterCountsEvents ==
    /\ \A s \in DOMAIN tally :
         (s[2] = NoVal /\ tally[s].part = 0) =>
            /\ Exists(redis, s[1])
            /\ IntOfStr(redis[s[1]].val) = tally[s].ok
    /\ \A k \in DOMAIN redis : IsCounterKey(k) => <<k, NoVal>> \in DOMAIN tally

\* C4 (steps): no step lowers a counter, and a counter key disappears only when
\* its expiry has passed.
C4_CounterStep ==
    \A k \in DOMAIN redis :
      IsCounterKey(k) =>
        IF k \in DOMAIN redis'
        THEN IntOfStr(redis'[k].val) >= IntOfStr(redis[k].val)
        ELSE redis[k].exp # NoExp /\ redis[k].exp <= now'

\* C4: for N events of one type cached on one date, counters:{date}:{type} is N,
\* and over any sequence of ingestions, reads and time the value never decreases
\* unless the key expires.
C4_CounterMonotone == [](C4_CounterCountsEvents) /\ [][C4_CounterStep]_vars

\* three purchase events cached today, none failed: the counter reads 3
C4_Witness ==
    LET s == <<CounterKey(Today(now), "purchase"), NoVal>>
    IN  /\ s \in DOMAIN tally
        /\ tally[s] = [ok |-> 3, part |-> 0]
        /\ CounterValue(redis, Today(now), "purchase") = 3

\* a step in which /analytics answered 200
AnalyticsAnswered ==
    /\ resp' # resp
    /\ resp'.handler = "analytics"
    /\ resp'.statusCode = 200

\* the list is in descending score order and names no member twice
Ranked(list) ==
    \A i, j \in 1..Len(list) :
      i < j => (list[i].score >= list[j].score /\ list[i].member # list[j].member)

\* the list is the head of the sorted set z: what is left out scores no higher
HeadOf(list, z) ==
    /\ \A j \in 1..Len(list) :
         list[j].member \in DOMAIN z /\ list[j].score = z[list[j].member]
    /\ \A m \in DOMAIN z :
         (\E j \in 1..Len(list) : list[j].member = m)
            \/ (Len(list) = TopStop + 1 /\ \A j \in 1..Len(list) : list[j].score >= z[m])

\* C5 (scores): a member of popular_products whose events were all cached without
\* error has the number of those events as its score.
C5_ScoreCountsEvents ==
    /\ \A s \in DOMAIN tally :
         (s[1] = PopularKey /\ tally[s].part = 0) =>
            /\ Exists(redis, PopularKey)
            /\ s[2] \in DOMAIN redis[PopularKey].val
            /\ redis[PopularKey].val[s[2]] = tally[s].ok
    /\ Exists(redis, PopularKey) =>
         \A m \in DOMAIN redis[PopularKey].val : <<PopularKey, m>> \in DOMAIN tally

\* C5 (list): /analytics lists at most ten products, in descending score order, and
\* they are the highest-scored members with their scores.
C5_TopListStep ==
    AnalyticsAnswered =>
      /\ Len(resp'.popular_products) <= 10
      /\ Ranked(resp'.popular_products)
      /\ HeadOf(resp'.popular_products,
                IF Exists(redis, PopularKey) THEN redis[PopularKey].val ELSE <<>>)

\* C5: the score of a product is the number of cached events that carried it since
\* popular_products was created, and the analytics list is the top ten by
\* descending score.
C5_Leaderboard == [](C5_ScoreCountsEvents) /\ [][C5_TopListStep]_vars

\* three events for P and one for Q: /analytics lists P with 3 above Q with 1
C5_Witness ==
    /\ resp.handler = "analytics" /\ resp.statusCode = 200
    /\ resp.popular_products = <<[member |-> "P", score |-> 3], [member |-> "Q", score |-> 1]>>
    /\ TallyOf(tally, <<PopularKey, "P">>) = [ok |-> 3, part |-> 0]
    /\ TallyOf(tally, <<PopularKey, "Q">>) = [ok |-> 1, part |-> 0]

\* the search events of today, all cached without error, that /analytics is to report
SearchCountReported(body) ==
    LET s == <<CounterKey(Today(now), "search"), NoVal>>
    IN  (s \in DOMAIN tally /\ tally[s].part = 0) => body.event_counts["search"] = tally[s].ok

QueriesToday ==
    {s \in DOMAIN tally : s[1] = SearchQueriesKey(Today(now)) /\ tally[s].part = 0}

Listed(body, s) ==
    \E j \in 1..Len(body.popular_searches) :
      body.popular_searches[j] = [member |-> s[2], score |-> tally[s].ok]

\* C6 as stated: /analytics reports the number of search events of the date and
\* lists every search query with the number of events that carried it
C6_AsStated ==
    [][AnalyticsAnswered =>
         /\ SearchCountReported(resp')
         /\ \A s \in QueriesToday : Listed(resp', s)]_vars

\* C6 as amended: /analytics reports the number of search events of the date and
\* lists the queries with the number of events that carried each, up to the ten
\* most frequent: a query is left out only when ten listed ones count no less.
C6_AnalyticsReportsSearches ==
    [][AnalyticsAnswered =>
         /\ SearchCountReported(resp')
         /\ Len(resp'.popular_searches) <= 10
         /\ Ranked(resp'.popular_searches)
         /\ \A s \in QueriesToday :
              \/ Listed(resp', s)
              \/ /\ Len(resp'.popular_searches) = 10
                 /\ \A j \in 1..10 : resp'.popular_searches[j].score >= tally[s].ok]_vars

\* three search events for "gaming laptop", counters empty before: /analytics
\* reports event_counts.search = 3 and the query with count 3
C6_Witness ==
    /\ resp.handler = "analytics" /\ resp.statusCode = 200
    /\ resp.date = Today(now)
    /\ resp.event_counts["search"] = 3
    /\ resp.popular_searches = <<[member |-> "gaming laptop", score |-> 3]>>
    /\ TallyOf(tally, <<CounterKey(Today(now), "search"), NoVal>>) = [ok |-> 3, part |-> 0]

\* a step in which /search answered
SearchStep ==
    /\ lastSearch' # lastSearch \/ resp' # resp
    /\ resp'.handler = "search"
    /\ lastSearch'.path = "/search"

\* the faults that keep the handler from reading the cache
CacheReadFaults == {"connect", "get", "get+setex"}

\* C7: a search that missed, queried the document store and stored the result is
\* followed at once by a search for the same (query, index, size) whose cache
\* lookup works: the second answers cached: true with the results of the first.
C7_RepeatServedFromCache ==
    [][(/\ lastSearch.path = "/search"
        /\ lastSearch.stored
        /\ lastSearch.at = now
        /\ resp.handler = "search"
        /\ resp.statusCode = 200
        /\ ~resp.cached
        /\ SearchStep
        /\ lastSearch'.req = lastSearch.req
        /\ lastSearch'.fault \notin CacheReadFaults)
       => /\ resp'.statusCode = 200
          /\ resp'.cached
          /\ resp'.results = resp.results]_vars

\* a hit on an entry stored at this very instant, with a document in the results
C7_Witness ==
    /\ lastSearch.path = "/search"
    /\ lastSearch.hit
    /\ Exists(redis, lastSearch.key)
    /\ redis[lastSearch.key].exp = now + SearchCacheTTL
    /\ resp.statusCode = 200 /\ resp.cached
    /\ resp.results.total = 1
    /\ Len(resp.results.hits) = 1

\* C8: on a hit the response is 200 with cached: true and the results are those
\* of the stored text, the document store is not queried (nor changed), and the
\* cache is left exactly as it was: the entry keeps its text and its expiry.
C8_HitReturnsStoredResult ==
    [][(SearchStep /\ lastSearch'.hit)
       => /\ resp'.statusCode = 200
          /\ resp'.cached
          /\ JsonDumps(resp'.results) = redis[lastSearch'.key].val
          /\ ~lastSearch'.queried
          /\ docs' = docs
          /\ redis' = redis]_vars

\* a hit whose results are not what the index holds at that moment
C8_Witness ==
    /\ lastSearch.path = "/search"
    /\ lastSearch.hit
    /\ resp.statusCode = 200 /\ resp.cached
    /\ resp.results.total = 0
    /\ \E x \in docs : x.index = resp.index /\ Matches(x.source, resp.query)

\* C9 as stated: whenever the cache fails on the read path (it cannot be reached,
\* or the lookup fails) and the document-store query would succeed, the store is
\* queried and the answer is 200 with cached: false.
C9_AsStated ==
    [][(/\ SearchStep
        /\ lastSearch'.fault \in CacheReadFaults
        /\ Param(lastSearch'.req.index, "user-events") \in indices)
       => /\ lastSearch'.queried
          /\ resp'.statusCode = 200
          /\ ~resp'.cached]_vars

\* the size the handler asks the store for
AskedSize(req) == Min(IntOfStr(req.size), MaxSize)

\* C10 (entries): a search entry in the cache expires, and no later than 300
\* seconds from now.
C10_EntryLifetime ==
    \A k \in DOMAIN redis :
      k[1] = "search_cache" =>
        /\ redis[k].exp # NoExp
        /\ redis[k].exp > now
        /\ redis[k].exp <= now + SearchCacheTTL

\* C10 (steps): a miss whose query succeeds answers 200 with cached: false and the
\* fresh results; unless the SETEX failed, the cache then holds the text of these
\* results under the key with expiry now + 300, and is otherwise unchanged; if it
\* failed, the cache is unchanged.  No other step touches a search entry.
C10_StoreStep ==
    /\ (/\ SearchStep
        /\ ~lastSearch'.hit
        /\ lastSearch'.queried
        /\ lastSearch'.fault # "search"
        /\ Param(lastSearch'.req.index, "user-events") \in indices)
       => LET results == SearchResults(docs, Param(lastSearch'.req.index, "user-events"),
                                       Param(lastSearch'.req.q, "*"),
                                       AskedSize(lastSearch'.req))
          IN  /\ resp'.statusCode = 200
              /\ ~resp'.cached
              /\ resp'.results = results
              /\ lastSearch'.stored = (lastSearch'.fault \notin {"setex", "get+setex"})
              /\ redis' = IF lastSearch'.stored
                          THEN Put(redis, lastSearch'.key,
                                   [type |-> "string", val |-> JsonDumps(results),
                                    exp |-> now + SearchCacheTTL])
                          ELSE redis
    /\ \A k \in DOMAIN redis :
         (k[1] = "search_cache" /\ k \in DOMAIN redis') =>
            \/ redis'[k] = redis[k]
            \/ SearchStep /\ lastSearch'.stored /\ lastSearch'.key = k

\* C10: a miss with a successful query stores the formatted result with a TTL of
\* 300 seconds, so that it is served for at most 300 seconds after it was stored;
\* when storing fails the answer is still 200, cached: false, with the results.
C10_StoredForFiveMinutes == [](C10_EntryLifetime) /\ [][C10_StoreStep]_vars

\* a hit on an entry in the last second of its 300
C10_Witness ==
    /\ lastSearch.path = "/search"
    /\ lastSearch.hit
    /\ lastSearch.at = now
    /\ Exists(redis, lastSearch.key)
    /\ redis[lastSearch.key].exp = now + 1
    /\ resp.statusCode = 200 /\ resp.cached

\* the TTL of a key class, by the first token of the key
ClassTTL(k) ==
    CASE k[1] = "session" -> 3600
      [] k[1] = "user" -> 86400
      [] k[1] = "counters" -> 604800
      [] k[1] = "popular_products" -> 86400
      [] k[1] = "search_queries" -> 604800
      [] k[1] = "product" -> 3600
      [] k[1] = "category_products" -> 86400
      [] k[1] = "product_search" -> 3600

\* a step in which the cache write of a record ran to its end
RecordCached ==
    /\ Len(trace') = Len(trace) + 1
    /\ trace'[Len(trace')].failAt = 0

\* the keys the commands write
KeysOf(cmds) == {cmds[j].key : j \in 1..Len(cmds)}

\* C11: right after the cache write of a record completes, every key it wrote is
\* in the cache with a remaining TTL above 0 and at most the value of its key
\* class, whatever the record holds.
C11_TTLByKeyClass ==
    [][RecordCached =>
         LET e == trace'[Len(trace')]
         IN  \A k \in KeysOf(CacheCommands(e.phase, e.rec, now)) :
               /\ Exists(redis', k)
               /\ redis'[k].exp # NoExp
               /\ redis'[k].exp - now' > 0
               /\ redis'[k].exp - now' <= ClassTTL(k)]_vars

\* a search event with a product and a query was just cached: the five keys it
\* wrote have the full TTL of their classes
C11_Witness ==
    /\ trace # <<>>
    /\ LET e == trace[Len(trace)]
           keys == KeysOf(CacheCommands(e.phase, e.rec, now))
       IN  /\ e.failAt = 0 /\ e.phase = 1
           /\ Cardinality(keys) = 5
           /\ \A k \in keys : Exists(redis, k) /\ redis[k].exp = now + ClassTTL(k)

\* a step in which a bulk request came back with per-document errors
BulkRejected ==
    /\ Len(bulkLog') = Len(bulkLog) + 1
    /\ bulkLog'[Len(bulkLog')].rejected # {}

\* C12 (state): a call whose bulk request came back with errors issued no second
\* request, and the invocation is not failing because of it.
C12_RejectionNotFatal ==
    \A j \in 1..Len(bulkLog) :
      bulkLog[j].rejected # {} =>
        /\ bulkLog[j].reachable
        /\ Len(CallBulks(bulkLog[j].mi, bulkLog[j].phase)) = 1
        /\ j = Len(bulkLog) => w.pc # "raised"

\* C12 (step): the call returns to process_data_batch with the count of the
\* records it enqueued, rejected ones included; the next entity type of the
\* message is taken up; the rejected documents are not in the index through
\* this request.
C12_RejectionStep ==
    BulkRejected =>
      LET b == bulkLog'[Len(bulkLog')]
      IN  /\ w'.pc = "begin"
          /\ w'.mi = w.mi
          /\ w'.phase = PhaseFrom(w.msgs[w.mi], w.phase + 1)
          /\ w'.batch_total = w.batch_total + Len(EnqueuedRecs(CallTrace(w.mi, w.phase)))
          /\ docs' = BulkApply(docs, b.actions, Len(b.actions) \div 2, b.rejected)

\* C12: a bulk response that reports per-document errors does not raise: the
\* invocation goes on to the remaining entity type and to its 200, the processed
\* count is what it was, and no document is sent again.
C12_BulkErrorsAreLogged == [](C12_RejectionNotFatal) /\ [][C12_RejectionStep]_vars

\* an event and a product in one payload, the event rejected by the store: the
\* product was still processed and indexed, and the answer is 200 with count 2
C12_Witness ==
    /\ ninv = 1
    /\ resp = Response200(2)
    /\ Cardinality(docs) = 1
    /\ \A d \in docs : d.index = "product-catalog"
    /\ \E k \in DOMAIN redis : k[1] = "session"

\* a step in which the write handler answered
WriteAnswered ==
    /\ resp' # resp
    /\ resp'.handler = "write"

\* a cache command of the record raised (for a product without id it is
\* product['id'] that raised, before any command)
CacheRaised(e) == e.failAt > 0 /\ ~(e.phase = 2 /\ e.rec.id = NoVal)

\* C13 as stated: an invocation during which the cache failed in a record's cache
\* write, or the bulk request did not reach the document store, ends with status
\* 500 (a client that cannot be initialised leads to the same except branch).
C13_AsStated ==
    [][(/\ WriteAnswered
        /\ \/ \E j \in 1..Len(trace) : CacheRaised(trace[j])
           \/ \E j \in 1..Len(bulkLog) : ~bulkLog[j].reachable)
       => resp'.statusCode = 500]_vars

\* C14 as stated: the write handler answers 500 only after an error of one of the
\* stores (index creation, client initialisation, bulk request); anything else
\* ends in a 200.
C14_AsStated ==
    [][(WriteAnswered /\ resp'.statusCode = 500)
       => w.error \in {"index", "connect", "bulk"}]_vars

\* every record of message m was tried
MessageProcessed(m) ==
    \A k \in 1..3 :
      HasPhase(w.msgs[m], k) => Len(CallTrace(m, k)) = Len(PhaseBatch(w.msgs[m], k))

\* C15 as stated: when a message of the envelope fails (its body cannot be
\* parsed, or its bulk request fails), the messages after it that can be read
\* have all been processed by the time the handler answers.
C15_AsStated ==
    [][(WriteAnswered /\ w.error \in {"json", "bulk"})
       => \A m \in (w.mi + 1)..Len(w.msgs) :
            w.msgs[m].parsable => MessageProcessed(m)]_vars

\* the records of messages 1..m that were cached and enqueued without an error
RECURSIVE EnqueuedUpTo(_)
EnqueuedUpTo(m) ==
    IF m = 0 THEN 0
    ELSE EnqueuedUpTo(m - 1)
            + Len(EnqueuedRecs(CallTrace(m, 1)))
            + Len(EnqueuedRecs(CallTrace(m, 2)))
            + Len(EnqueuedRecs(CallTrace(m, 3)))

\* C16 as stated: the count in the 200 response is the number of records of the
\* payload that were cached and enqueued without a per-record error, whether
\* they came in an events list, in a products list or as a single event.
C16_AsStated ==
    [][(WriteAnswered /\ resp'.statusCode = 200)
       => resp'.processed = EnqueuedUpTo(Len(w.msgs))]_vars

\* a /cache or /user request was answered in this step
LookupAnswered == lastLookup' # lastLookup

\* the request just answered lacked its required parameter
ParameterMissing ==
    \/ lastLookup'.path = "/cache" /\ lastLookup'.key = <<>> /\ lastLookup'.pattern = <<>>
    \/ lastLookup'.path = "/user" /\ lastLookup'.user_id = NoVal

\* C17 as stated: a /cache request without key and pattern, and a /user request
\* without user_id, is answered 400 and the cache is not contacted for it, not
\* even to set the connection up.
C17_AsStated ==
    [][(LookupAnswered /\ ParameterMissing)
       => resp'.statusCode = 400 /\ ~lastLookup'.setup]_vars

\* the /cache request just answered, and what it carried
CacheAnswered == LookupAnswered /\ lastLookup'.path = "/cache"

CarriesKey == lastLookup'.key # <<>>

CarriesPattern == lastLookup'.pattern # <<>>

\* C18 as stated: a /cache request that carries neither key nor pattern, or
\* both, is not served as a lookup.
C18_AsStated ==
    [][(CacheAnswered /\ (CarriesKey <=> CarriesPattern))
       => lastLookup'.mode = "none" /\ resp'.statusCode # 200]_vars

\* C18: a /cache request must carry at least one of key and pattern. One that
\* carries neither is not served as a lookup: it is answered 400 (500 when the
\* cache cannot be reached). One that carries a key is served as a lookup of
\* that key whether or not it carries a pattern too: its answer is an answer of
\* the same request without the pattern.
C18_AtLeastOneRequired ==
    [][CacheAnswered
       => /\ (~CarriesKey /\ ~CarriesPattern)
               => /\ lastLookup'.mode = "none"
                  /\ resp'.statusCode = IF lastLookup'.fault = "connect" THEN 500 ELSE 400
          /\ (CarriesKey /\ lastLookup'.fault # "connect")
               => /\ lastLookup'.mode = "key"
                  /\ resp' \in {o.resp : o \in handle_cache_lookup(lastLookup'.key, <<>>,
                                                  lastLookup'.fault, redis, now)}]_vars

\* a request with both a key and a pattern was answered with the key's value
C18_Witness ==
    /\ lastLookup.path = "/cache"
    /\ lastLookup.key # <<>>
    /\ lastLookup.pattern # <<>>
    /\ resp.statusCode = 200
    /\ resp.key = lastLookup.key

\* v lists the members of the sorted set z with their scores, lowest score first
InScoreOrder(v, z) ==
    /\ Len(v) = Cardinality(DOMAIN z)
    /\ {v[j].member : j \in 1..Len(v)} = DOMAIN z
    /\ \A j \in 1..Len(v) : v[j].score = z[v[j].member]
    /\ \A i, j \in 1..Len(v) : i < j => v[i].score <= v[j].score

\* v lists the members of the set S, each once
MembersOf(v, S) ==
    /\ Len(v) = Cardinality(S)
    /\ {v[j] : j \in 1..Len(v)} = S

\* the value v is the stored entry e decoded by its type
Decoded(v, e) ==
    CASE e.type = "string" -> v = [string |-> e.val]
      [] e.type = "hash" -> v = [hash |-> e.val]
      [] e.type = "set" -> DOMAIN v = {"set"} /\ MembersOf(v.set, e.val)
      [] e.type = "zset" -> DOMAIN v = {"zset"} /\ InScoreOrder(v.zset, e.val)

\* the time the entry e has left at time t, -1 for an entry that never expires
Remaining(e, t) == IF e.exp = NoExp THEN 0 - 1 ELSE e.exp - t

PatternAnswered ==
    CacheAnswered /\ lastLookup'.mode = "pattern" /\ lastLookup'.fault \in {"none", "entry"}

\* C20 as stated: a pattern lookup is answered 200 however many keys match; when
\* more than 100 keys match, results has exactly 100 entries and count is 100;
\* when at most 100 match, count is the number of matching keys.
C20_AsStated ==
    [][PatternAnswered
       => /\ resp'.statusCode = 200
          /\ IF Cardinality(lastLookup'.matched) > PatternCap
             THEN /\ Cardinality(DOMAIN resp'.entries) = PatternCap
                  /\ resp'.count = PatternCap
             ELSE resp'.count = Cardinality(lastLookup'.matched)]_vars

\* the entry e is what pattern mode is to report for the stored key k
Reported(e, k) ==
    \/ DOMAIN e = {"error"}
    \/ redis[k].type = "string" /\ e = [string |-> redis[k].val]
    \/ redis[k].type = "hash" /\ e = [hash |-> redis[k].val]
    \/ redis[k].type \notin {"string", "hash"} /\ DOMAIN e = {"unsupported"}

\* C21 as stated: in a pattern lookup every enumerated key, up to the cap, has
\* an entry in results: its decoded value for a string or a hash, a marker for a
\* key of another type, an error text for a key whose commands raised; and the
\* request is answered 200.
C21_AsStated ==
    [][PatternAnswered
       => /\ resp'.statusCode = 200
          /\ DOMAIN resp'.entries \subseteq lastLookup'.matched
          /\ Cardinality(DOMAIN resp'.entries)
                = Min(Cardinality(lastLookup'.matched), PatternCap)
          /\ \A k \in DOMAIN resp'.entries : Reported(resp'.entries[k], k)]_vars

\* the number the cache holds under counters:{today}:{ty}, 0 without the key
StoredCount(ty) ==
    LET k == <<"counters", ":", Today(now), ":", ty>>
    IN  IF k \in DOMAIN redis THEN IntOfStr(redis[k].val) ELSE 0

\* C22: the analytics response reports under each of view, click, purchase,
\* search and add_to_cart the value of counters:{today}:{type}, 0 for a counter
\* that is absent, and total_events is the sum of these five numbers; the
\* scores of the two top lists are not part of it.
C22_FiveCountersAndTheirSum ==
    [][AnalyticsAnswered
       => /\ DOMAIN resp'.event_counts = {"view", "click", "purchase", "search", "add_to_cart"}
          /\ \A ty \in DOMAIN resp'.event_counts : resp'.event_counts[ty] = StoredCount(ty)
          /\ resp'.total_events
                = resp'.event_counts["view"] + resp'.event_counts["click"]
                    + resp'.event_counts["purchase"] + resp'.event_counts["search"]
                    + resp'.event_counts["add_to_cart"]]_vars

\* analytics answered with two counters present, three absent and both top
\* lists filled
C22_Witness ==
    /\ resp.handler = "analytics" /\ resp.statusCode = 200
    /\ resp.event_counts["purchase"] > 0
    /\ resp.event_counts["search"] > 0
    /\ resp.event_counts["view"] = 0
    /\ ~Exists(redis, CounterKey(Today(now), "view"))
    /\ resp.total_events = resp.event_counts["purchase"] + resp.event_counts["search"]
    /\ resp.popular_products # <<>>
    /\ resp.popular_searches # <<>>

\* C23 as stated: of the invocations that run create_opensearch_indices side by
\* side with the document store reachable, none fails: one that finds an index
\* absent and then loses the race to create it goes on to process its payload
\* and answers 200.
C23_AsStated ==
    \A p \in Racers :
      (racers[p].pc = "done" /\ ~racers[p].fault) => racers[p].statusCode = 200

\* C24: in a write invocation no record is cached and no bulk request is sent
\* before both indices were found or created; when ensuring the indices fails,
\* the invocation caches nothing and indexes nothing.
C24_IndicesBeforeRecords ==
    /\ []((trace # <<>> \/ bulkLog # <<>>)
            => (w.error # "index" /\ {"user-events", "product-catalog"} \subseteq indices))
    /\ [][(w.pc = "indices" \/ w.error = "index") => (redis' = redis /\ docs' = docs)]_vars

\* an invocation failed to ensure the second index, after an earlier one had
\* ingested records
C24_Witness ==
    /\ w.error = "index"
    /\ w.pc = "raised"
    /\ ninv = 2
    /\ docs # {}
    /\ redis # <<>>

\* the write handler sets the cache connection up in this step
ConnectionSetup == ~w.redis_client /\ w'.redis_client

\* C25 as stated: in a sequence of invocations the cache client is constructed
\* at most once, on first use, and no later invocation sets a connection up.
\* Every key of the cache was written through a client, so a setup is the first
\* one only if the cache holds no key yet.
C25_AsStated == [][ConnectionSetup => redis = <<>>]_vars

\* the number the size parameter of the last search spells
SizeAsked == IntOfStr(lastSearch'.req.size)

\* C26: whatever size is asked for, the size a search sends to the document
\* store is at most 100 and the cache key is built from that same capped size,
\* so that all sizes above 100 lead to one key; the answer holds no more hits
\* than the capped size.
C26_SizeCappedInQueryAndKey ==
    [][(SearchStep /\ lastSearch'.key # <<>>)
       => /\ lastSearch'.size <= 100
          /\ lastSearch'.size = IF SizeAsked > 100 THEN 100 ELSE SizeAsked
          /\ lastSearch'.key
                = <<"search_cache", ":",
                    IF lastSearch'.req.index = NoVal THEN "user-events"
                    ELSE lastSearch'.req.index,
                    ":", IF lastSearch'.req.q = NoVal THEN "*" ELSE lastSearch'.req.q, ":">>
                    \o StrOfInt(lastSearch'.size)
          /\ resp'.statusCode = 200 => Len(resp'.results.hits) <= lastSearch'.size]_vars

\* a search of size 150 was served from the cache, from the entry under size 100
C26_Witness ==
    /\ lastSearch.path = "/search"
    /\ lastSearch.req.size = <<"1", "5", "0">>
    /\ lastSearch.hit
    /\ lastSearch.size = 100
    /\ SubSeq(lastSearch.key, Len(lastSearch.key) - 2, Len(lastSearch.key)) = <<"1", "0", "0">>
    /\ resp.cached

\* a /health request was answered in this step
HealthAnswered ==
    /\ lastLookup' # lastLookup \/ resp' # resp
    /\ lastLookup'.path = "/health"
    /\ resp'.handler = "health"

\* C27: the health check answers 200 with status healthy exactly when the ping
\* of the cache and the health call of the document store both succeed;
\* otherwise it answers 503 with status degraded; either way it reports on both
\* services, the failing ones as unhealthy.
C27_HealthReflectsBothChecks ==
    [][HealthAnswered
       => /\ (resp'.statusCode = 200) <=> (lastLookup'.redis_ok /\ lastLookup'.opensearch_ok)
          /\ (resp'.status = "healthy") <=> (lastLookup'.redis_ok /\ lastLookup'.opensearch_ok)
          /\ resp'.statusCode \in {200, 503}
          /\ resp'.status \in {"healthy", "degraded"}
          /\ (resp'.statusCode = 503) <=> (resp'.status = "degraded")
          /\ DOMAIN resp'.services = {"redis", "opensearch"}
          /\ (resp'.services.redis = "healthy") <=> lastLookup'.redis_ok
          /\ (resp'.services.redis = "unhealthy") <=> ~lastLookup'.redis_ok
          /\ (resp'.services.opensearch = "healthy") <=> lastLookup'.opensearch_ok
          /\ (resp'.services.opensearch = "unhealthy") <=> ~lastLookup'.opensearch_ok]_vars

\* the cache failed its check, and the document store was still checked and
\* found healthy
C27_Witness ==
    /\ lastLookup.path = "/health"
    /\ ~lastLookup.redis_ok
    /\ resp.handler = "health"
    /\ resp.statusCode = 503
    /\ resp.status = "degraded"
    /\ resp.services.redis = "unhealthy"
    /\ resp.services.opensearch = "healthy"

\* an event of an earlier batch is in the index user-events and the hash of its
\* user is still in the cache
BatchIngested ==
    \E d \in docs : d.index = "user-events" /\ Exists(redis, <<"user", ":", d.source.user_id>>)

\* /search?q=*&size=5 was answered in this step
FlowSearchAnswered ==
    SearchStep /\ lastSearch'.req.q = "*" /\ lastSearch'.req.size = <<"5">>

\* /cache?pattern=user:* was answered in this step
FlowLookupAnswered ==
    CacheAnswered /\ lastLookup'.key = <<>> /\ lastLookup'.pattern = <<"user", ":", "*">>

\* C28 as stated: once a batch with an event was processed and none of its keys
\* has expired, /search?q=*&size=5 reports a total above 0 and
\* /cache?pattern=user:* a count above 0, whatever was read before the batch.
C28_AsStated ==
    [][/\ (FlowSearchAnswered /\ BatchIngested)
            => (resp'.statusCode = 200 /\ resp'.results.total > 0)
       /\ (FlowLookupAnswered /\ BatchIngested)
            => (resp'.statusCode = 200 /\ resp'.count > 0)]_vars

\* C28: once a batch with an event was cached and indexed and none of its keys
\* has expired, /cache?pattern=user:* reports a count above 0, and
\* /search?q=*&size=5 is answered 200 with a total above 0 unless it is served
\* from the cache: then it repeats the entry stored under its key, which may
\* date from before the batch.
C28_FreshSearchFindsTheBatch ==
    [][/\ (FlowSearchAnswered /\ BatchIngested)
            => /\ resp'.statusCode = 200
               /\ ~resp'.cached => resp'.results.total > 0
               /\ resp'.cached
                    => /\ Exists(redis, lastSearch'.key)
                       /\ resp'.results = JsonLoads(redis[lastSearch'.key].val)
       /\ (FlowLookupAnswered /\ BatchIngested)
            => (resp'.statusCode = 200 /\ resp'.count > 0)]_vars

\* after the batch the search went to the document store and found the event
C28_Witness ==
    /\ BatchIngested
    /\ lastSearch.path = "/search"
    /\ lastSearch.req.q = "*"
    /\ resp.handler = "search"
    /\ resp.statusCode = 200
    /\ ~resp.cached
    /\ resp.results.total > 0

\* a read endpoint answered in this step, health with both of its checks passed
ReadAnswered ==
    /\ resp' # resp
    /\ resp'.handler \in {"health", "metrics", "analytics", "search", "cache"}
    /\ resp'.handler = "health" => (lastLookup'.redis_ok /\ lastLookup'.opensearch_ok)

\* C29 as stated: with both stores within reach, /health, /metrics, /analytics,
\* /search?q=<term> and /cache?pattern=<pattern> answer 200 whatever the stores
\* hold.
C29_AsStated == [][ReadAnswered => resp'.statusCode = 200]_vars

\* C29: with both stores within reach, /health, /metrics, /analytics and
\* /cache?pattern=<pattern> answer 200 whatever the stores hold, and so does
\* /search?q=<term> once the index it searches exists; while the index is absent
\* the search is answered 500.
C29_ReadsAnswer200 ==
    [][ReadAnswered
       => resp'.statusCode
            = IF resp'.handler = "search" /\ "user-events" \notin indices THEN 500 ELSE 200]_vars

\* a search that goes to the document store and has no hits is answered 200
C29_Witness ==
    /\ lastSearch.path = "/search"
    /\ lastSearch.req.q = "smartphone"
    /\ resp.handler = "search"
    /\ resp.statusCode = 200
    /\ ~resp.cached
    /\ resp.results.total = 0
    /\ resp.results.hits = <<>>

\* the keys a record's cache write sets, as opposed to increments
SetKeys(k, rec) ==
    IF k = 2
    THEN {<<"product", ":", rec.id>>,
          <<"category_products", ":", rec.category>>,
          <<"product_search", ":", Lower(rec.name)>>}
    ELSE {<<"session", ":", rec.session_id>>, <<"user", ":", rec.user_id>>}

\* the record whose cache write just completed is the one cached right before
\* it in this invocation, by the same kind of call
CachedAgain ==
    /\ RecordCached
    /\ Len(trace) >= 1
    /\ trace[Len(trace)].failAt = 0
    /\ trace[Len(trace)].rec = trace'[Len(trace')].rec
    /\ (trace[Len(trace)].phase = 2) <=> (trace'[Len(trace')].phase = 2)

\* C30: caching an identical record a second time leaves the keys the write
\* sets unconditionally with the contents the first caching gave them: the
\* hash product:{id}, the set category_products:{category} and the string
\* product_search:{name} of a product, the hashes session:{session_id} and
\* user:{user_id} of an event.
C30_SetKeysIdempotent ==
    [][CachedAgain =>
         LET x == trace'[Len(trace')]
         IN  \A key \in SetKeys(x.phase, x.rec) :
                 /\ Exists(redis, key) /\ Exists(redis', key)
                 /\ redis'[key].type = redis[key].type
                 /\ redis'[key].val = redis[key].val]_vars

\* a product was cached twice in a row and its three keys are in the cache
C30_Witness ==
    /\ Len(trace) >= 2
    /\ trace[1].phase = 2 /\ trace[2].phase = 2
    /\ trace[1].failAt = 0 /\ trace[2].failAt = 0
    /\ trace[1].rec = trace[2].rec
    /\ \A key \in SetKeys(2, trace[2].rec) : Exists(redis, key)

----------------------------------------------------------------------------
(* A cache write that fails part-way *)

\* a record was tried and one of its cache commands raised
RecordFailed ==
    /\ Len(trace') = Len(trace) + 1
    /\ trace'[Len(trace')].failAt > 0

\* the keys of the commands the record issued before the one that raised
KeysWritten(x, t) ==
    LET cmds == CacheCommands(x.phase, x.rec, t)
    IN  {cmds[j].key : j \in 1..(x.failAt - 1)}

\* the hash fields the record wrote before the command that raised are in place
FieldsKept(x, r, t) ==
    LET cmds == CacheCommands(x.phase, x.rec, t)
    IN  \A j \in 1..(x.failAt - 1) :
          /\ Exists(r, cmds[j].key)
          /\ cmds[j].op = "hset" =>
                \A f \in DOMAIN cmds[j].map : r[cmds[j].key].val[f] = cmds[j].map[f]

\* the call of process_user_events / process_products returns its count
CallReturns == w.pc = "loop" /\ w'.pc = "begin"

\* C31 as stated: when a cache command of a record raises, the keys of the
\* commands before it hold what those commands wrote, every other key is as it
\* was, the record is not enqueued for the index, and it is not counted: neither
\* by the loop nor in what the call adds to the total of the invocation.
C31_AsStated ==
    /\ [][RecordFailed =>
            LET x == trace'[Len(trace')]
            IN  /\ FieldsKept(x, redis', now)
                /\ \A key \in (DOMAIN redis \cup DOMAIN redis') \ KeysWritten(x, now) :
                      /\ Exists(redis, key) /\ Exists(redis', key)
                      /\ redis'[key] = redis[key]
                /\ w'.bulk_actions = w.bulk_actions
                /\ w'.processed_count = w.processed_count]_vars
    /\ [][CallReturns =>
            w'.batch_total - w.batch_total
                <= Len(CachedRecs(CallTrace(w.mi, w.phase)))]_vars

----------------------------------------------------------------------------
(* The window between the cache writes and the bulk request *)

\* the bulk request of a call raised and the handler is on its way to the 500
BulkFailed == w.error = "bulk" \/ w'.error = "bulk"

\* the invocation was stopped after the cache writes of a call and before its bulk
StoppedBeforeBulk ==
    /\ w.pc = "loop" /\ w.i > Len(w.batch)
    /\ w'.pc = "idle"

\* the documents an index holds
Held(index) == {d.source : d \in {x \in docs : x.index = index}}

\* the batch went through after an attempt that did not index it
Reingested ==
    /\ w.pc = "idle"
    /\ Len(ended) = 2
    /\ ended[1] \in {"bulk", "stopped"}
    /\ ended[2] = "none"
    /\ resp.statusCode = 200
    /\ resp.processed = Len(RetryEvents) + Len(RetryProducts)

\* C32: a bulk request that raises, and an invocation stopped between the cache
\* writes and the bulk request, leave the cache as the cache writes left it: no
\* key is written, changed or deleted on the way out.  When the same batch is
\* ingested again and goes through, each index holds exactly the records of the
\* batch, one document per record under the record's id.
C32_NoCompensationAndConvergence ==
    /\ [][(BulkFailed \/ StoppedBeforeBulk) => redis' = redis]_vars
    /\ [](Reingested =>
            /\ Held("user-events") = {RetryEvents[j] : j \in 1..Len(RetryEvents)}
            /\ Held("product-catalog") = {RetryProducts[j] : j \in 1..Len(RetryProducts)}
            /\ \A d \in docs : d.id = d.source.id
            /\ Cardinality(docs) = Len(RetryEvents) + Len(RetryProducts))

\* the bulk request of the events raised in the first attempt and the second
\* attempt went through: the index holds the batch once, the counter of the
\* views counted both events twice
C32_Witness ==
    /\ Reingested
    /\ ended[1] = "bulk"
    /\ Cardinality(docs) = Len(RetryEvents) + Len(RetryProducts)
    /\ Exists(redis, CounterKey(Today(now), "view"))
    /\ redis[CounterKey(Today(now), "view")].val = StrOfInt(2 * Len(RetryEvents))

----------------------------------------------------------------------------
(* What the read endpoints leave behind *)

\* a read endpoint was served: no write invocation runs, no time passes
ReadStep == w.pc = "idle" /\ w' = w /\ now' = now

\* the key is in the cache before and after the step as it was
Untouched(key) ==
    /\ Exists(redis, key) /\ Exists(redis', key)
    /\ redis'[key] = redis[key]

\* the step is a search and the key is the cache key of its request
OwnKeyOfSearch(key) ==
    /\ resp'.handler = "search"
    /\ lastSearch'.path = "/search"
    /\ key = lastSearch'.key

\* C33 as stated: a read endpoint changes no index, no document and no cache
\* key, except that a search creates the cache key of its request when that
\* key is absent.
C33_AsStated ==
    [][ReadStep =>
         /\ docs' = docs /\ indices' = indices
         /\ \A key \in DOMAIN redis \cup DOMAIN redis' :
               \/ Untouched(key)
               \/ (OwnKeyOfSearch(key) /\ ~Exists(redis, key) /\ Exists(redis', key))]_vars

\* C33: a read endpoint changes no index, no document and no cache key, except
\* that a search which was not answered from the cache writes the cache key of
\* its request with its results and 300 seconds to live: it creates the key on
\* a miss, and replaces the entry and restarts its TTL when the cache read failed
\* while the entry was there.
C33_ReadsWriteOwnSearchKeyOnly ==
    [][ReadStep =>
         /\ docs' = docs /\ indices' = indices
         /\ \A key \in DOMAIN redis \cup DOMAIN redis' :
               \/ Untouched(key)
               \/ /\ OwnKeyOfSearch(key)
                  /\ ~lastSearch'.hit /\ lastSearch'.stored
                  /\ resp'.statusCode = 200
                  /\ Exists(redis', key)
                  /\ redis'[key] = [type |-> "string", val |-> JsonDumps(resp'.results),
                                    exp |-> now + SearchCacheTTL]]_vars

\* a search missed and stored its result beside the keys of an ingested event,
\* which are in the cache with the expiry the write gave them
C33_Witness ==
    /\ lastSearch.path = "/search"
    /\ ~lastSearch.hit /\ lastSearch.stored
    /\ lastSearch.at = now /\ now > 0
    /\ Exists(redis, lastSearch.key)
    /\ Exists(redis, <<"user", ":", "u1">>)
    /\ redis[<<"user", ":", "u1">>].exp = UserTTL
    /\ docs # {}

----------------------------------------------------------------------------
(* GET /user *)

\* a /user request that carried a user_id was answered, the cache within reach
UserAnswered ==
    /\ LookupAnswered
    /\ lastLookup'.path = "/user"
    /\ lastLookup'.user_id # NoVal
    /\ lastLookup'.fault = "none"

\* the hash under the key, empty when the key is absent
HashAt(key) == IF Exists(redis, key) THEN redis[key].val ELSE <<>>

\* C34: a /user lookup that reaches the cache answers 404 exactly when
\* user:{user_id} is absent; otherwise it answers 200 with user_data equal to
\* that hash and session_data equal to the hash session:{current_session}, which
\* is empty when the session key has expired while the user key is alive.
C34_UserLookup ==
    [][UserAnswered =>
         LET user_key == <<"user", ":", lastLookup'.user_id>>
         IN  IF ~Exists(redis, user_key)
             THEN resp'.statusCode = 404
             ELSE /\ resp'.statusCode = 200
                  /\ resp'.user_id = lastLookup'.user_id
                  /\ resp'.user_data = redis[user_key].val
                  /\ resp'.session_data
                        = HashAt(<<"session", ":", redis[user_key].val.current_session>>)]_vars

\* the session of the user expired an hour after its event, the user key lives
\* on: the lookup answers 200 with the user's hash and an empty session
C34_Witness ==
    /\ lastLookup.path = "/user"
    /\ lastLookup.user_id = "u1"
    /\ resp.handler = "user" /\ resp.statusCode = 200
    /\ resp.user_data.current_session = "s1"
    /\ resp.session_data = <<>>
    /\ ~Exists(redis, <<"session", ":", "s1">>)
    /\ Exists(redis, <<"user", ":", "u1">>)

----------------------------------------------------------------------------
(* Keys and their expiry *)

\* C35 as stated: in every reachable state every key of the cache carries an
\* expiry, also after a cache write that raised part-way and after an invocation
\* that was stopped between two commands.
C35_AsStated == \A key \in DOMAIN redis : redis[key].exp # NoExp

----------------------------------------------------------------------------
(* The fingerprint of a search *)

\* what a search asked for: index, query and capped size
AskedFor(note) ==
    <<Param(note.req.index, "user-events"), Param(note.req.q, "*"), note.size>>

\* C36 as stated: two searches that use the same cache entry, one after the
\* other, asked for the same index, query and capped size: a search never reads
\* or writes the entry of a search that differs in one of them.
C36_AsStated ==
    [][(/\ SearchStep
        /\ lastSearch.path = "/search"
        /\ lastSearch.key # <<>>
        /\ lastSearch'.key = lastSearch.key)
       => AskedFor(lastSearch') = AskedFor(lastSearch)]_vars

----------------------------------------------------------------------------
(* A key lookup and what happens to the key meanwhile *)

\* the last response is the 200 of a key lookup
KeyFound ==
    /\ resp.handler = "cache"
    /\ resp.statusCode = 200
    /\ "key" \in DOMAIN resp

\* C37 as stated: a key lookup whose key expires or is written again between
\* its commands answers 404, or 200 with the type, the value and the TTL of a key
\* that exists: never 200 with type none, with a null or emptied value, or with
\* the TTL of an absent key.
C37_AsStated ==
    KeyFound =>
      /\ resp.type # "none"
      /\ resp.value \notin {ValueOfAbsent(ty) : ty \in {"string", "hash", "set", "zset"}}
      /\ resp.ttl # TtlOfAbsent

----------------------------------------------------------------------------
(* Counters and scores under write invocations side by side *)

\* every invocation that was started has answered, and one has
AllAnswered ==
    /\ \A p \in Racers : racers[p].pc \in {"idle", "done"}
    /\ \E p \in Racers : racers[p].pc = "done"

\* the value of a counter, or the score of a member of a leaderboard
Standing(slot) ==
    IF ~Exists(redis, slot[1]) THEN 0
    ELSE IF slot[2] = NoVal THEN IntOfStr(redis[slot[1]].val)
    ELSE IF slot[2] \in DOMAIN redis[slot[1]].val THEN redis[slot[1]].val[slot[2]]
    ELSE 0

----------------------------------------------------------------------------
(* The hashes of a session and of a user after a batch *)

\* the HSET of the session hash of a tried event went through, and that of the
\* user hash (the first and the third command of its cache write)
SessionWritten(x) == x.failAt = 0 \/ x.failAt > 1
UserWritten(x) == x.failAt = 0 \/ x.failAt > 3

\* the j-th tried event is the last one in program order that wrote the hash of
\* its session, and of its user
LastOfSession(j) ==
    /\ SessionWritten(trace[j])
    /\ \A k \in (j + 1)..Len(trace) :
          ~(SessionWritten(trace[k]) /\ trace[k].rec.session_id = trace[j].rec.session_id)

LastOfUser(j) ==
    /\ UserWritten(trace[j])
    /\ \A k \in (j + 1)..Len(trace) :
          ~(UserWritten(trace[k]) /\ trace[k].rec.user_id = trace[j].rec.user_id)

\* C39: the events of a batch are cached one after the other in batch order:
\* at every point of the loop session:{s} holds last_event and last_activity, and
\* user:{u} holds last_event, last_activity and current_session, of the last
\* event tried so far for that session or user whose hash write went through,
\* whatever the timestamps of the events.
C39_LastInBatchOrderWins ==
    (w.pc = "loop" /\ w.phase # 2) =>
      \A j \in 1..Len(trace) :
        LET rec == trace[j].rec
        IN  /\ LastOfSession(j) =>
                  /\ Exists(redis, SessionKey(rec))
                  /\ redis[SessionKey(rec)].val.last_event = rec.event_type
                  /\ redis[SessionKey(rec)].val.last_activity = rec.timestamp
                  /\ redis[SessionKey(rec)].val.user_id = rec.user_id
            /\ LastOfUser(j) =>
                  /\ Exists(redis, UserKey(rec))
                  /\ redis[UserKey(rec)].val.last_event = rec.event_type
                  /\ redis[UserKey(rec)].val.last_activity = rec.timestamp
                  /\ redis[UserKey(rec)].val.current_session = rec.session_id

\* a view at t2, then a purchase at t1, then a view whose session HSET raised:
\* the session and the user hold the purchase and t1
C39_Witness ==
    /\ w.pc = "loop" /\ w.i = 4 /\ Len(trace) = 3
    /\ trace[1].rec.timestamp = "t2" /\ trace[1].failAt = 0
    /\ trace[2].rec.timestamp = "t1" /\ trace[2].failAt = 0
    /\ trace[2].rec.event_type = "purchase"
    /\ trace[3].rec.event_type = "view" /\ trace[3].failAt = 1
    /\ Exists(redis, <<"session", ":", "s1">>)
    /\ redis[<<"session", ":", "s1">>].val.last_event = "purchase"
    /\ redis[<<"session", ":", "s1">>].val.last_activity = "t1"
    /\ redis[<<"user", ":", "u1">>].val.last_event = "purchase"

----------------------------------------------------------------------------
(* A search whose query of the document store fails *)

\* the search just answered went to the document store and the query raised
QueryFailed(note, response) ==
    /\ note.path = "/search"
    /\ note.queried
    /\ response.handler = "search"
    /\ response.statusCode = 500

\* C40: a search whose query of the document store raises answers 500 with an
\* error field and leaves the cache as it was: no search_cache entry is created
\* or changed.  When the same search is made next and its cache read works, as
\* that of the failed search did, it misses again and goes to the document
\* store.
C40_FailedSearchNotCached ==
    /\ [][(SearchStep /\ QueryFailed(lastSearch', resp'))
           => /\ "error" \in DOMAIN resp'
              /\ ~lastSearch'.stored
              /\ redis' = redis]_vars
    /\ [][(/\ SearchStep
            /\ QueryFailed(lastSearch, resp)
            /\ lastSearch.fault \notin CacheReadFaults
            /\ lastSearch'.req = lastSearch.req
            /\ lastSearch'.fault \notin CacheReadFaults)
           => ~lastSearch'.hit /\ lastSearch'.queried]_vars

\* the index holds an event, the query raised: the answer is 500 and the cache
\* has no entry for the search
C40_Witness ==
    /\ QueryFailed(lastSearch, resp)
    /\ lastSearch.fault = "search"
    /\ "user-events" \in indices
    /\ docs # {}
    /\ ~Exists(redis, lastSearch.key)
    /\ Exists(redis, <<"user", ":", "u1">>)

====
